---- MODULE Spec2Model ----
(***************************************************************************)
(* aio-storage: folder tree with materialized paths, cascading soft        *)
(* delete / restore, the file handlers (upload, rename, move, delete,      *)
(* download URL), per-user storage quota with the QuotaService, and the    *)
(* job pipeline (QueueService with its in-memory fallback, the worker's    *)
(* consumers and processors).                                              *)
(*                                                                         *)
(* Strings are sequences of one-character strings, so that prefix tests,   *)
(* regular-expression tests and String.replace are computed, not assumed.  *)
(* Ids are positive integers; 0 stands for null (parentId, folderId,       *)
(* deletedAt).  Every request handler is one atomic action; createFolder   *)
(* is also given step by step (createFolderCheck, createFolderInsert,      *)
(* createFolderAudit) for the specification of concurrent calls.  Names    *)
(* handed to the handlers are already trimmed (the schema's trim setter is *)
(* the identity on them).                                                  *)
(***************************************************************************)
EXTENDS Integers, Sequences, FiniteSets, TLC

\* ------------------------------------------------------------------ bounds
MaxFolders == 2
MaxFiles == 1
MaxClock == 2
MaxDepth == 3
MaxDeliveries == 2
MaxQueued == 1
MaxRequests == 2
ChainLen == 3
MaxNamedFiles == 2
MaxUsage == 2
TrashLen == 3

Users == {"u1", "u2"}
Names == {<<"A">>, <<"A", "B">>}
NameInputs == Names \cup {<<>>}
FileNames == {<<"f">>}
MAX_FILE_SIZE == 2
Sizes == 1..(MAX_FILE_SIZE + 1)
StorageQuota == 1

UPLOAD == "file.upload"
DOWNLOAD == "file.download"
TRANSCODE == "video.transcode"
QUEUES == {UPLOAD, DOWNLOAD, TRANSCODE}

AuditActions == {"upload", "download", "delete", "share", "login", "register", "update"}

\* ----------------------------------------------------------------- strings
Slash == <<"/">>
RestoredSuffix == <<" ", "(", "r", "e", "s", "t", "o", "r", "e", "d", ")">>

\* String.prototype.startsWith
StartsWith(s, p) == Len(p) <= Len(s) /\ SubSeq(s, 1, Len(p)) = p

\* The text a RegExp built from `src` matches: every character of the model's
\* alphabet is a literal except "(" and ")", which delimit a capturing group
\* and match no character themselves.
RegExpText(src) == SelectSeq(src, LAMBDA c : c \notin {"(", ")"})

\* new RegExp(`^${src}`) tested against text
RegExpTest(src, text) == StartsWith(text, RegExpText(src))

\* String.prototype.replace(old, new) with a string pattern: the first
\* occurrence only, the text itself when there is none.
ReplaceFirst(s, old, new) ==
  LET hits == {i \in 1..(Len(s) - Len(old) + 1) : SubSeq(s, i, i + Len(old) - 1) = old}
  IN  IF hits = {} THEN s
      ELSE LET i == CHOOSE k \in hits : \A j \in hits : k <= j
           IN  SubSeq(s, 1, i - 1) \o new \o SubSeq(s, i + Len(old), Len(s))

\* ------------------------------------------------------------------- state
VARIABLES
  folders,        \* collection 'folders': sequence, index = _id
  files,          \* collection 'files': sequence, index = _id
  storageUsed,    \* User.storageUsed per user
  enableRabbitMQ, \* config.features.enableRabbitMQ
  brokerUp,       \* whether the RabbitMQ broker is running
  connected,      \* QueueService.connection is open
  workerUp,       \* the worker's channel is open and its consumers are registered
  isEnabled,      \* QueueService.isEnabled
  channel,        \* QueueService.channel is not null
  inMemoryQueue,  \* QueueService.inMemoryQueue
  brokerQueue,    \* messages the broker holds per queue (ready, not delivered)
  unacked,        \* messages the worker's consumer callbacks hold, not yet settled
  deliveries,     \* how often UploadProcessor.process applied its $inc per fileId
  deadLetter,     \* messages the broker dead-lettered, per source queue
  failed,         \* per queue, the jobs whose processor call threw (history)
  requests,       \* the createFolder calls that run step by step, per request slot
  downloadCache,  \* Redis keys download:<fileId>:<userId> that hold an unexpired URL
  response,       \* outcome of the last handler call
  audited         \* audit records the last handler call appended (audit_logs is write-only)

vars == <<folders, files, storageUsed, enableRabbitMQ, brokerUp, connected, workerUp,
          isEnabled, channel,
          inMemoryQueue, brokerQueue, unacked, deliveries, deadLetter, failed,
          requests, downloadCache, response, audited>>

storeVars == <<folders, files, storageUsed>>
queueVars == <<enableRabbitMQ, brokerUp, connected, isEnabled, channel, inMemoryQueue,
               brokerQueue, deadLetter>>
workerVars == <<workerUp, unacked, deliveries, failed>>

FolderIds == 1..Len(folders)
FileIds == 1..Len(files)

\* A lookup that does not filter by owner.
FindActiveMutant(fs, id, u) == id \in 1..Len(fs) /\ fs[id].deletedAt = 0
\* ------------------------------------------------------------ Folder model
\* Folder.findOne({_id, userId, deletedAt: null})
FindActive(fs, id, u) ==
  id \in 1..Len(fs) /\ fs[id].userId = u /\ fs[id].deletedAt = 0

\* A lookup that sees only the documents with a greater _id than self.
DuplicateMutant(fs, u, parentId, name, self) ==
  \E d \in 1..Len(fs) :
    /\ d > self
    /\ fs[d].userId = u /\ fs[d].parentId = parentId
    /\ fs[d].name = name /\ fs[d].deletedAt = 0
\* duplicate = Folder.findOne({userId, parentId, name, _id: {$ne: self}, deletedAt: null})
Duplicate(fs, u, parentId, name, self) ==
  \E d \in 1..Len(fs) :
    /\ d # self
    /\ fs[d].userId = u /\ fs[d].parentId = parentId
    /\ fs[d].name = name /\ fs[d].deletedAt = 0

\* FolderSchema.index({userId, parentId, name, deletedAt}, {unique: true})
UniqueIndex(fs) ==
  \A a, b \in 1..Len(fs) :
    (a # b /\ fs[a].userId = fs[b].userId /\ fs[a].parentId = fs[b].parentId
           /\ fs[a].name = fs[b].name)
      => fs[a].deletedAt # fs[b].deletedAt

\* parentPath ? `${parentPath}/${name}` : `/${name}`
ComputePath(parentPath, name) ==
  IF parentPath # <<>> THEN parentPath \o Slash \o name ELSE Slash \o name

\* AuditLog.create: the action must belong to the schema's enum
AuditValid(action) == action \in AuditActions

Resp(op, status) == [op |-> op, status |-> status]
AuditRec(u, action, id) == [userId |-> u, action |-> action, resourceId |-> id]

\* descendants = Folder.find({path: /^oldPath\//, deletedAt: null});
\* descendant.path = descendant.path.replace(oldPath, newPath); descendant.save()
updateDescendantPaths(fs, oldPath, newPath) ==
  [i \in 1..Len(fs) |->
     IF RegExpTest(oldPath \o Slash, fs[i].path) /\ fs[i].deletedAt = 0
     THEN [fs[i] EXCEPT !.path = ReplaceFirst(fs[i].path, oldPath, newPath)]
     ELSE fs[i]]

\* targetPath.startsWith(sourcePath + '/') || targetPath === sourcePath
isDescendant(targetPath, sourcePath) ==
  StartsWith(targetPath, sourcePath \o Slash) \/ targetPath = sourcePath

\* new Date(): later than every timestamp the store holds
Now(fs, fl) ==
  LET stamps == {fs[i].deletedAt : i \in 1..Len(fs)} \cup {fl[i].deletedAt : i \in 1..Len(fl)}
                \cup {0}
  IN  1 + CHOOSE m \in stamps : \A t \in stamps : t <= m

\* The documents an updateMany({...}, {deletedAt: t}) leaves changed.
SetDeletedAt(coll, S, t) ==
  [i \in 1..Len(coll) |-> IF i \in S THEN [coll[i] EXCEPT !.deletedAt = t] ELSE coll[i]]

\* Folder.updateMany over the matched ids M is not atomic: documents are written
\* one by one in an order the store chooses, and a write the unique index
\* rejects aborts the call, the earlier writes staying.  S is the set written.
UpdateManyWritten(fs, M, t, S) ==
  /\ S \subseteq M
  /\ UniqueIndex(SetDeletedAt(fs, S, t))
  /\ \/ S = M
     \/ \E d \in M \ S : ~UniqueIndex(SetDeletedAt(fs, S \cup {d}, t))

\* Bound of the model: no stored path has more than MaxDepth segments.
Depth(path) == Len(SelectSeq(path, LAMBDA c : c = "/"))
WithinDepth(fs) == \A i \in 1..Len(fs) : Depth(fs[i].path) <= MaxDepth

\* ---------------------------------------------------------- FolderController
createFolder(u, name, parentId) ==
  LET parentPath == IF parentId # 0 THEN folders[parentId].path ELSE <<>>
      path == ComputePath(parentPath, name)
      doc == [userId |-> u, parentId |-> parentId, name |-> name, path |-> path,
              deletedAt |-> 0]
      created == Append(folders, doc)
      id == Len(folders) + 1
      Fail(status) == /\ response' = Resp("createFolder", status)
                      /\ audited' = <<>>
                      /\ UNCHANGED folders
  IN  /\ IF name = <<>> THEN Fail("ValidationError")
         ELSE IF parentId # 0 /\ ~FindActive(folders, parentId, u) THEN Fail("NotFound")
         ELSE IF Duplicate(folders, u, parentId, name, 0) THEN Fail("DuplicateName")
         ELSE IF ~UniqueIndex(created) THEN Fail("Conflict")
         ELSE /\ Len(folders) < MaxFolders
              /\ folders' = created
              \* AuditLog.create({action: 'create'}) runs after the insert
              /\ IF AuditValid("create")
                 THEN /\ audited' = <<AuditRec(u, "create", id)>>
                      /\ response' = Resp("createFolder", "Success")
                 ELSE /\ audited' = <<>>
                      /\ response' = Resp("createFolder", "ValidationError")
      /\ WithinDepth(folders')
      /\ UNCHANGED <<files, storageUsed, queueVars, requests, downloadCache, workerVars>>

\* createFolder as the event loop runs it when several calls are in flight:
\* every await hands control to the other calls.  A request slot holds the
\* call's arguments and position; `concurrent` records that the other call for
\* the same (userId, parentId, name) was in flight when this one did its lookups.
Reqs == 1..MaxRequests

IdleRequest ==
  [pc |-> "idle", userId |-> "", parentId |-> 0, name |-> <<>>, path |-> <<>>,
   folderId |-> 0, concurrent |-> FALSE, status |-> ""]

InFlight(r) == requests[r].pc \in {"checked", "inserted"}

\* Steps 1 to 4: the name check, the parent lookup, the duplicate lookup and
\* the path; a failing check answers at once.
createFolderCheck(r, u, name, parentId) ==
  LET parentPath == IF parentId # 0 THEN folders[parentId].path ELSE <<>>
      rival == \E o \in Reqs \ {r} :
                 /\ InFlight(o)
                 /\ requests[o].userId = u
                 /\ requests[o].parentId = parentId
                 /\ requests[o].name = name
      call == [IdleRequest EXCEPT !.userId = u, !.parentId = parentId, !.name = name,
                                  !.concurrent = rival]
      Fail(status) ==
        /\ requests' = [requests EXCEPT ![r] = [call EXCEPT !.pc = "done", !.status = status]]
        /\ response' = Resp("createFolder", status)
  IN  /\ requests[r].pc = "idle"
      /\ IF name = <<>> THEN Fail("ValidationError")
         ELSE IF parentId # 0 /\ ~FindActive(folders, parentId, u) THEN Fail("NotFound")
         ELSE IF Duplicate(folders, u, parentId, name, 0) THEN Fail("DuplicateName")
         ELSE /\ requests' = [requests EXCEPT ![r] =
                               [call EXCEPT !.pc = "checked",
                                            !.path = ComputePath(parentPath, name)]]
              /\ UNCHANGED response
      /\ audited' = <<>>
      /\ UNCHANGED <<storeVars, queueVars, downloadCache, workerVars>>

\* Step 5: Folder.create; the unique index rejects the insert of a second
\* live folder with the same (userId, parentId, name) with E11000, which the
\* error handler answers with 409.
createFolderInsert(r) ==
  LET call == requests[r]
      doc == [userId |-> call.userId, parentId |-> call.parentId, name |-> call.name,
              path |-> call.path, deletedAt |-> 0]
      created == Append(folders, doc)
  IN  /\ call.pc = "checked"
      /\ IF ~UniqueIndex(created)
         THEN /\ requests' = [requests EXCEPT ![r].pc = "done", ![r].status = "Conflict"]
              /\ response' = Resp("createFolder", "Conflict")
              /\ UNCHANGED folders
         ELSE /\ Len(folders) < MaxFolders
              /\ folders' = created
              /\ requests' = [requests EXCEPT ![r].pc = "inserted",
                                              ![r].folderId = Len(folders) + 1]
              /\ UNCHANGED response
      /\ audited' = <<>>
      /\ WithinDepth(folders')
      /\ UNCHANGED <<files, storageUsed, queueVars, downloadCache, workerVars>>

\* Step 6: AuditLog.create({action: 'create'}), then the 201 response.
createFolderAudit(r) ==
  LET call == requests[r]
      status == IF AuditValid("create") THEN "Success" ELSE "ValidationError"
  IN  /\ call.pc = "inserted"
      /\ audited' = IF AuditValid("create")
                    THEN <<AuditRec(call.userId, "create", call.folderId)>> ELSE <<>>
      /\ requests' = [requests EXCEPT ![r].pc = "done", ![r].status = status]
      /\ response' = Resp("createFolder", status)
      /\ UNCHANGED <<storeVars, queueVars, downloadCache, workerVars>>

\* getFolderContents: the folder lookup, then the live subfolders and the live
\* files directly inside, which the response lists.
getFolderContents(u, folderId) ==
  /\ IF ~FindActive(folders, folderId, u)
     THEN response' = Resp("getFolderContents", "NotFound")
     ELSE response' =
            [op |-> "getFolderContents", status |-> "Success",
             folders |-> {i \in FolderIds : /\ folders[i].userId = u
                                            /\ folders[i].parentId = folderId
                                            /\ folders[i].deletedAt = 0},
             files |-> {x \in FileIds : /\ files[x].userId = u
                                        /\ files[x].folderId = folderId
                                        /\ files[x].deletedAt = 0}]
  /\ audited' = <<>>
  /\ UNCHANGED <<storeVars, queueVars, requests, downloadCache, workerVars>>
updateFolder(u, folderId, name) ==
  LET Fail(status) == /\ response' = Resp("updateFolder", status)
                      /\ audited' = <<>>
                      /\ UNCHANGED folders
  IN  /\ IF ~FindActive(folders, folderId, u) THEN Fail("NotFound")
         ELSE LET folder == folders[folderId]
                  oldPath == folder.path
                  newPath == IF folder.parentId # 0
                             THEN folders[folder.parentId].path \o Slash \o name
                             ELSE Slash \o name
                  saved == [folders EXCEPT ![folderId].name = name,
                                           ![folderId].path = newPath]
              IN  IF Duplicate(folders, u, folder.parentId, name, folderId)
                  THEN Fail("DuplicateName")
                  ELSE IF name = <<>> THEN Fail("ValidationError")
                  ELSE IF ~UniqueIndex(saved) THEN Fail("Conflict")
                  ELSE /\ folders' = updateDescendantPaths(saved, oldPath, newPath)
                       /\ audited' = <<AuditRec(u, "update", folderId)>>
                       /\ response' = Resp("updateFolder", "Success")
      /\ WithinDepth(folders')
      /\ UNCHANGED <<files, storageUsed, queueVars, requests, downloadCache, workerVars>>

moveFolder(u, folderId, targetParentId) ==
  LET Fail(status) == /\ response' = Resp("moveFolder", status)
                      /\ UNCHANGED folders
  IN  /\ IF ~FindActive(folders, folderId, u) THEN Fail("NotFound")
         ELSE IF targetParentId # 0 /\ ~FindActive(folders, targetParentId, u)
         THEN Fail("NotFound")
         ELSE LET folder == folders[folderId]
                  oldPath == folder.path
                  newPath == IF targetParentId # 0
                             THEN folders[targetParentId].path \o Slash \o folder.name
                             ELSE Slash \o folder.name
                  saved == [folders EXCEPT ![folderId].parentId = targetParentId,
                                           ![folderId].path = newPath]
              IN  IF targetParentId # 0
                     /\ isDescendant(folders[targetParentId].path, folder.path)
                  THEN Fail("InvalidMove")
                  ELSE IF Duplicate(folders, u, targetParentId, folder.name, folderId)
                  THEN Fail("DuplicateName")
                  ELSE IF ~UniqueIndex(saved) THEN Fail("Conflict")
                  ELSE /\ folders' = updateDescendantPaths(saved, oldPath, newPath)
                       /\ response' = Resp("moveFolder", "Success")
      /\ audited' = <<>>
      /\ WithinDepth(folders')
      /\ UNCHANGED <<files, storageUsed, queueVars, requests, downloadCache, workerVars>>

\* Folder.updateMany({userId, path: /^folderPath\//, deletedAt: null}, {deletedAt})
DeleteMatchedFolders(fs, folderPath, u) ==
  {i \in 1..Len(fs) : /\ fs[i].userId = u
                      /\ RegExpTest(folderPath \o Slash, fs[i].path)
                      /\ fs[i].deletedAt = 0}

\* Folder.find({userId, path: /^folderPath/}).distinct('_id')
DeleteFolderIds(fs, folderPath, u) ==
  {i \in 1..Len(fs) : fs[i].userId = u /\ RegExpTest(folderPath, fs[i].path)}

\* File.updateMany({userId, folderId: {$in: folderIds}, deletedAt: null}, {deletedAt})
DeleteMatchedFiles(fl, folderIds, u) ==
  {i \in 1..Len(fl) : fl[i].userId = u /\ fl[i].folderId \in folderIds /\ fl[i].deletedAt = 0}

\* deleteFolder once the folder is found: folder.deletedAt = now; folder.save();
\* deleteDescendants(folder.path, userId, now).  S is the set of subfolders the
\* updateMany wrote.
DeleteFolderEffect(fs, fl, u, folderId, now, S) ==
  LET folder == fs[folderId]
      saved == [fs EXCEPT ![folderId].deletedAt = now]
      matched == DeleteMatchedFolders(saved, folder.path, u)
      fs2 == SetDeletedAt(saved, S, now)
  IN  IF ~UniqueIndex(saved)
      THEN [folders |-> fs, files |-> fl, status |-> "Conflict"]
      ELSE IF S # matched
      THEN [folders |-> fs2, files |-> fl, status |-> "Conflict"]
      ELSE [folders |-> fs2,
            files |-> SetDeletedAt(fl, DeleteMatchedFiles(fl,
                                         DeleteFolderIds(fs2, folder.path, u), u), now),
            status |-> "Success"]

DeleteWritten(fs, u, folderId, now) ==
  LET saved == [fs EXCEPT ![folderId].deletedAt = now]
      matched == DeleteMatchedFolders(saved, fs[folderId].path, u)
  IN  IF ~UniqueIndex(saved) THEN {{}}
      ELSE {S \in SUBSET matched : UpdateManyWritten(saved, matched, now, S)}

deleteFolder(u, folderId) ==
  /\ IF ~FindActive(folders, folderId, u)
     THEN /\ response' = Resp("deleteFolder", "NotFound")
          /\ audited' = <<>>
          /\ UNCHANGED <<folders, files>>
     ELSE LET now == Now(folders, files)
          IN  /\ now <= MaxClock
              /\ \E S \in DeleteWritten(folders, u, folderId, now) :
                   LET r == DeleteFolderEffect(folders, files, u, folderId, now, S)
                   IN  /\ folders' = r.folders
                       /\ files' = r.files
                       /\ response' = Resp("deleteFolder", r.status)
                       /\ audited' = IF r.status = "Success"
                                     THEN <<AuditRec(u, "delete", folderId)>> ELSE <<>>
  /\ UNCHANGED <<storageUsed, queueVars, requests, downloadCache, workerVars>>

\* The store calls deleteFolder awaits after its lookup, in the order it makes
\* them: folder.save, Folder.updateMany, Folder.find, File.updateMany,
\* AuditLog.create.
DeleteSteps == {"save", "updateManyFolders", "find", "updateManyFiles", "create"}

\* deleteFolder when the store call `failAt` rejects (the connection to the
\* database breaks, a write times out): the calls before it have taken effect,
\* an updateMany that rejects has written the subset S of its matches, the
\* calls after it are not made, and the error handler answers 500.  No call
\* runs in a transaction and no catch block undoes the earlier writes.
deleteFolderFault(u, folderId, failAt) ==
  /\ FindActive(folders, folderId, u)
  /\ failAt \in DeleteSteps
  /\ LET folder == folders[folderId]
         now == Now(folders, files)
         saved == [folders EXCEPT ![folderId].deletedAt = now]
         matched == DeleteMatchedFolders(saved, folder.path, u)
         cascaded == SetDeletedAt(saved, matched, now)
         matchedFiles == DeleteMatchedFiles(files, DeleteFolderIds(cascaded, folder.path, u), u)
     IN  /\ now <= MaxClock
         /\ UniqueIndex(saved)
         /\ CASE failAt = "save" -> UNCHANGED <<folders, files>>
              [] failAt = "updateManyFolders" ->
                   /\ \E S \in SUBSET matched : folders' = SetDeletedAt(saved, S, now)
                   /\ UNCHANGED files
              [] failAt = "find" -> folders' = cascaded /\ UNCHANGED files
              [] failAt = "updateManyFiles" ->
                   /\ folders' = cascaded
                   /\ \E S \in SUBSET matchedFiles : files' = SetDeletedAt(files, S, now)
              [] failAt = "create" ->
                   /\ folders' = cascaded
                   /\ files' = SetDeletedAt(files, matchedFiles, now)
  /\ response' = Resp("deleteFolder", "InternalError")
  /\ audited' = <<>>
  /\ UNCHANGED <<storageUsed, queueVars, requests, downloadCache, workerVars>>
\* this.getParentPath(parentId): the path of the folder with that id
getParentPath(fs, parentId) == fs[parentId].path

\* Folder.updateMany({userId, path: /^folderPath\//}, {deletedAt: null})
RestoreMatchedFolders(fs, folderPath, u) ==
  {i \in 1..Len(fs) : fs[i].userId = u /\ RegExpTest(folderPath \o Slash, fs[i].path)}

\* Folder.find({userId, path: /^folderPath/, deletedAt: null}).distinct('_id')
RestoreFolderIds(fs, folderPath, u) ==
  {i \in 1..Len(fs) : /\ fs[i].userId = u
                      /\ RegExpTest(folderPath, fs[i].path)
                      /\ fs[i].deletedAt = 0}

\* File.updateMany({userId, folderId: {$in: folderIds}}, {deletedAt: null})
RestoreMatchedFiles(fl, folderIds, u) ==
  {i \in 1..Len(fl) : fl[i].userId = u /\ fl[i].folderId \in folderIds}

\* The folder document restoreFolder saves (steps 2 to 4).
RestoredDoc(fs, u, folderId) ==
  LET folder == fs[folderId]
      \* 2. parent = Folder.findOne({_id: folder.parentId, deletedAt: null})
      parentGone == folder.parentId # 0 /\ fs[folder.parentId].deletedAt # 0
      parentId1 == IF parentGone THEN 0 ELSE folder.parentId
      path1 == IF parentGone THEN Slash \o folder.name ELSE folder.path
      \* 3. name conflict
      dup == Duplicate(fs, u, parentId1, folder.name, folderId)
      name2 == IF dup THEN folder.name \o RestoredSuffix ELSE folder.name
      path2 == IF ~dup THEN path1
               ELSE IF parentId1 # 0
                    THEN getParentPath(fs, parentId1) \o Slash \o name2
                    ELSE Slash \o name2
  IN  [userId |-> u, parentId |-> parentId1, name |-> name2, path |-> path2, deletedAt |-> 0]

\* restoreFolder once the folder is found in the trash; S is the set of
\* subfolders the updateMany of restoreDescendants wrote.
RestoreFolderEffect(fs, fl, u, folderId, S) ==
  LET doc == RestoredDoc(fs, u, folderId)
      saved == [fs EXCEPT ![folderId] = doc]
      matched == RestoreMatchedFolders(saved, doc.path, u)
      fs2 == SetDeletedAt(saved, S, 0)
  IN  IF ~UniqueIndex(saved)
      THEN [folders |-> fs, files |-> fl, status |-> "Conflict"]
      ELSE IF S # matched
      THEN [folders |-> fs2, files |-> fl, status |-> "Conflict"]
      ELSE [folders |-> fs2,
            files |-> SetDeletedAt(fl, RestoreMatchedFiles(fl,
                                         RestoreFolderIds(fs2, doc.path, u), u), 0),
            status |-> "Success"]

RestoreWritten(fs, u, folderId) ==
  LET doc == RestoredDoc(fs, u, folderId)
      saved == [fs EXCEPT ![folderId] = doc]
      matched == RestoreMatchedFolders(saved, doc.path, u)
  IN  IF ~UniqueIndex(saved) THEN {{}}
      ELSE {S \in SUBSET matched : UpdateManyWritten(saved, matched, 0, S)}

\* A trash lookup that also finds the folders that are not deleted.
FindDeletedMutant(fs, id, u) == id \in 1..Len(fs) /\ fs[id].userId = u
\* Folder.findOne({_id, userId, deletedAt: {$ne: null}})
FindDeleted(fs, id, u) ==
  id \in 1..Len(fs) /\ fs[id].userId = u /\ fs[id].deletedAt # 0

restoreFolder(u, folderId) ==
  /\ IF ~FindDeleted(folders, folderId, u)
     THEN /\ response' = Resp("restoreFolder", "NotFound")
          /\ UNCHANGED <<folders, files>>
     ELSE \E S \in RestoreWritten(folders, u, folderId) :
            LET r == RestoreFolderEffect(folders, files, u, folderId, S)
            IN  /\ folders' = r.folders
                /\ files' = r.files
                /\ response' = Resp("restoreFolder", r.status)
  /\ audited' = <<>>
  /\ WithinDepth(folders')
  /\ UNCHANGED <<storageUsed, queueVars, requests, downloadCache, workerVars>>

\* ------------------------------------------------------------- QueueService
\* channel.sendToQueue(queue, content, {persistent: true}) on a channel without
\* publisher confirms: a message written to a connection whose broker is gone
\* reaches no queue, and the call returns all the same.
PublishBroker(bq, queue, data) ==
  IF brokerUp /\ connected THEN [bq EXCEPT ![queue] = Append(@, data)] ELSE bq

\* A fallback that puts the newest message first (unshift).
PublishMemoryUnshift(mq, queue, data) == [mq EXCEPT ![queue] = <<data>> \o @]
\* A fallback that drops the message.
PublishMemoryMutant(mq, queue, data) == mq
\* this.inMemoryQueue.get(queue).push(data)
PublishMemory(mq, queue, data) == [mq EXCEPT ![queue] = Append(@, data)]

\* if (this.isEnabled && this.channel)
UsesBroker == isEnabled /\ channel

\* publishToQueue(queue, data): the broker path when isEnabled && channel,
\* the in-memory buffer otherwise.
publishToQueue(queue, data) ==
  IF UsesBroker
  THEN /\ brokerQueue' = PublishBroker(brokerQueue, queue, data)
       /\ UNCHANGED inMemoryQueue
  ELSE /\ inMemoryQueue' = PublishMemory(inMemoryQueue, queue, data)
       /\ UNCHANGED brokerQueue

isAvailable == isEnabled

getInMemoryQueue(queue) == inMemoryQueue[queue]

\* A connect that, once the channel is open, hands the buffered payloads to
\* the broker and empties the buffers.
connectFlush ==
  /\ IF ~enableRabbitMQ
     THEN /\ isEnabled' = FALSE
          /\ UNCHANGED <<connected, channel, inMemoryQueue, brokerQueue>>
     ELSE IF brokerUp
          THEN /\ connected' = TRUE /\ channel' = TRUE /\ isEnabled' = TRUE
               /\ brokerQueue' = [q \in QUEUES |-> brokerQueue[q] \o inMemoryQueue[q]]
               /\ inMemoryQueue' = [q \in QUEUES |-> <<>>]
          ELSE /\ isEnabled' = FALSE
               /\ UNCHANGED <<connected, channel, inMemoryQueue, brokerQueue>>
  /\ response' = Resp("connect", "Success")
  /\ audited' = <<>>
  /\ UNCHANGED <<storeVars, enableRabbitMQ, requests, downloadCache, brokerUp, deadLetter,
                 workerVars>>
\* A connect that marks the service enabled whatever amqp.connect did.
connectMutant ==
  /\ isEnabled' = enableRabbitMQ
  /\ UNCHANGED <<connected, channel>>
  /\ response' = Resp("connect", "Success")
  /\ audited' = <<>>
  /\ UNCHANGED <<storeVars, enableRabbitMQ, requests, downloadCache, brokerUp, inMemoryQueue, brokerQueue, deadLetter,
                 workerVars>>
\* connect(): nothing when disabled by configuration; otherwise the connection,
\* the channel, the three queues, then isEnabled = true; any failure on the
\* way ends in the catch with isEnabled = false.
connect ==
  /\ IF ~enableRabbitMQ
     THEN /\ isEnabled' = FALSE
          /\ UNCHANGED <<connected, channel>>
     ELSE IF brokerUp
          THEN /\ connected' = TRUE /\ channel' = TRUE /\ isEnabled' = TRUE
          ELSE /\ isEnabled' = FALSE
               /\ UNCHANGED <<connected, channel>>
  /\ response' = Resp("connect", "Success")
  /\ audited' = <<>>
  /\ UNCHANGED <<storeVars, enableRabbitMQ, requests, downloadCache, brokerUp, inMemoryQueue, brokerQueue, deadLetter,
                 workerVars>>

\* A handler that logs and keeps the service enabled.
onConnectionCloseMutant ==
  /\ connected
  /\ connected' = FALSE
  /\ response' = Resp("onConnectionClose", "Success")
  /\ audited' = <<>>
  /\ UNCHANGED <<storeVars, enableRabbitMQ, requests, downloadCache, brokerUp, isEnabled, channel, inMemoryQueue,
                 brokerQueue, deadLetter, workerVars>>
\* connection.on('error' | 'close'): the event loop runs the handler of an open
\* connection that went down (its broker stopped, or the link broke).
onConnectionClose ==
  /\ connected
  /\ connected' = FALSE
  /\ isEnabled' = FALSE
  /\ response' = Resp("onConnectionClose", "Success")
  /\ audited' = <<>>
  /\ UNCHANGED <<storeVars, enableRabbitMQ, requests, downloadCache, brokerUp, channel, inMemoryQueue, brokerQueue,
                 deadLetter, workerVars>>

\* close(): channel.close() on a channel that is already closed throws, and the
\* catch leaves isEnabled as it was.
close ==
  /\ IF channel /\ ~connected
     THEN UNCHANGED <<connected, isEnabled>>
     ELSE connected' = FALSE /\ isEnabled' = FALSE
  /\ response' = Resp("close", "Success")
  /\ audited' = <<>>
  /\ UNCHANGED <<storeVars, enableRabbitMQ, requests, downloadCache, brokerUp, channel, inMemoryQueue, brokerQueue,
                 deadLetter, workerVars>>

clearInMemoryQueue(queue) ==
  /\ inMemoryQueue' = [inMemoryQueue EXCEPT ![queue] = <<>>]
  /\ response' = Resp("clearInMemoryQueue", "Success")
  /\ audited' = <<>>
  /\ UNCHANGED <<storeVars, enableRabbitMQ, requests, downloadCache, brokerUp, connected, isEnabled, channel,
                 brokerQueue, deadLetter, workerVars>>

\* publishToQueue(queue, data) called by a component other than the upload
\* handler; the call returns without an error on either path.
publishJob(queue, data) ==
  /\ Len(brokerQueue[queue]) + Len(inMemoryQueue[queue]) < MaxQueued
  /\ publishToQueue(queue, data)
  /\ response' = Resp("publishToQueue", "Success")
  /\ audited' = <<>>
  /\ UNCHANGED <<storeVars, enableRabbitMQ, requests, downloadCache, brokerUp, connected, isEnabled, channel,
                 deadLetter, workerVars>>

\* The broker process starts or stops (environment).  It accepts connections
\* again only after the close event of every connection it dropped has run.
BrokerStart ==
  /\ ~brokerUp
  /\ ~connected
  /\ brokerUp' = TRUE
  /\ response' = Resp("BrokerStart", "Success")
  /\ audited' = <<>>
  /\ UNCHANGED <<storeVars, enableRabbitMQ, requests, downloadCache, connected, isEnabled, channel, inMemoryQueue,
                 brokerQueue, deadLetter, workerVars>>

\* A stopping broker keeps its durable queues and persistent messages; messages
\* delivered on a channel that is lost unacknowledged go back to the head of
\* their queue.  The consumer callbacks that hold them run on, and the API
\* process learns of the stop when onConnectionClose runs.
Requeue(bq, ua) == [q \in QUEUES |-> [i \in 1..Len(ua[q]) |-> ua[q][i].job] \o bq[q]]

BrokerStop ==
  /\ brokerUp
  /\ brokerUp' = FALSE
  /\ workerUp' = FALSE
  /\ brokerQueue' = IF workerUp THEN Requeue(brokerQueue, unacked) ELSE brokerQueue
  /\ response' = Resp("BrokerStop", "Success")
  /\ audited' = <<>>
  /\ UNCHANGED <<storeVars, enableRabbitMQ, requests, downloadCache, connected, isEnabled, channel, inMemoryQueue,
                 deadLetter, unacked, deliveries, failed>>

\* ------------------------------------------------------------ FileController
\* A gate that lets one byte too many through.
QuotaExceededMutant(used, size) == used + size > StorageQuota + 1
\* user.storageUsed + file.size > user.storageQuota
QuotaExceeded(used, size) == used + size > StorageQuota

\* upload, creating a File row while the collection holds fewer than `limit` rows.
uploadBounded(limit, u, hasFile, name, folderId, size) ==
  LET Fail(status) == /\ response' = Resp("upload", status)
                      /\ UNCHANGED <<files, inMemoryQueue, brokerQueue>>
      id == Len(files) + 1
      fileDoc == [userId |-> u, folderId |-> folderId, name |-> name, size |-> size,
                  deletedAt |-> 0]
      job == [fileId |-> id, userId |-> u, size |-> size]
  IN  /\ IF ~hasFile THEN Fail("ValidationError")
         ELSE IF size > MAX_FILE_SIZE THEN Fail("ValidationError")
         ELSE IF QuotaExceeded(storageUsed[u], size) THEN Fail("QuotaExceeded")
         ELSE /\ Len(files) < limit
              /\ files' = Append(files, fileDoc)
              /\ publishToQueue(UPLOAD, job)
              /\ response' = Resp("upload", "Success")
      /\ audited' = <<>>
      /\ UNCHANGED <<folders, storageUsed, enableRabbitMQ, requests, downloadCache, brokerUp, connected,
                     isEnabled, channel, deadLetter, workerVars>>

\* FileController.upload
upload(u, hasFile, name, folderId, size) ==
  uploadBounded(MaxFiles, u, hasFile, name, folderId, size)

deleteFile(u, fileId) ==
  LET Found == fileId \in 1..Len(files) /\ files[fileId].userId = u
               /\ files[fileId].deletedAt = 0
  IN  /\ IF ~Found
         THEN /\ response' = Resp("deleteFile", "NotFound")
              /\ audited' = <<>>
              /\ UNCHANGED files
         ELSE /\ Now(folders, files) <= MaxClock
              /\ files' = [files EXCEPT ![fileId].deletedAt = Now(folders, files)]
              /\ audited' = <<AuditRec(u, "delete", fileId)>>
              /\ response' = Resp("deleteFile", "Success")
      /\ UNCHANGED <<folders, storageUsed, queueVars, requests, downloadCache, workerVars>>

\* File.findOne({_id, userId, deletedAt: null})
FindActiveFile(fl, id, u) ==
  id \in 1..Len(fl) /\ fl[id].userId = u /\ fl[id].deletedAt = 0

\* duplicate = File.findOne({userId, folderId, name, _id: {$ne: self}, deletedAt: null})
DuplicateFile(fl, u, folderId, name, self) ==
  \E d \in 1..Len(fl) :
    /\ d # self
    /\ fl[d].userId = u /\ fl[d].folderId = folderId
    /\ fl[d].name = name /\ fl[d].deletedAt = 0

\* updateFile: the rename of a file; an empty name leaves the name as it is.
updateFile(u, fileId, name) ==
  LET Fail(status) == /\ response' = Resp("updateFile", status)
                      /\ audited' = <<>>
                      /\ UNCHANGED files
  IN  /\ IF ~FindActiveFile(files, fileId, u) THEN Fail("NotFound")
         ELSE IF name # <<>> /\ DuplicateFile(files, u, files[fileId].folderId, name, fileId)
         THEN Fail("DuplicateName")
         ELSE /\ files' = IF name # <<>> THEN [files EXCEPT ![fileId].name = name] ELSE files
              /\ IF AuditValid("update")
                 THEN /\ audited' = <<AuditRec(u, "update", fileId)>>
                      /\ response' = Resp("updateFile", "Success")
                 ELSE /\ audited' = <<>>
                      /\ response' = Resp("updateFile", "ValidationError")
      /\ UNCHANGED <<folders, storageUsed, queueVars, requests, downloadCache, workerVars>>

\* moveFile: the target folder lookup, the name check at the target, the save.
moveFile(u, fileId, targetFolderId) ==
  LET Fail(status) == /\ response' = Resp("moveFile", status)
                      /\ UNCHANGED files
  IN  /\ IF ~FindActiveFile(files, fileId, u) THEN Fail("NotFound")
         ELSE IF targetFolderId # 0 /\ ~FindActive(folders, targetFolderId, u)
         THEN Fail("NotFound")
         ELSE IF DuplicateFile(files, u, targetFolderId, files[fileId].name, fileId)
         THEN Fail("DuplicateName")
         ELSE /\ files' = [files EXCEPT ![fileId].folderId = targetFolderId]
              /\ response' = Resp("moveFile", "Success")
      /\ audited' = <<>>
      /\ UNCHANGED <<folders, storageUsed, queueVars, requests, downloadCache, workerVars>>
\* this.checkAccess(userId, fileId): the caller owns the file or holds an
\* unexpired Share on it.  No handler creates Share documents, so the shares
\* collection is empty and access is ownership.
checkAccess(u, fileId) == files[fileId].userId = u

\* getDownloadUrl: the file lookup by id alone, the permission check, the
\* cached URL when there is one, else a fresh URL that is cached and audited.
getDownloadUrl(u, fileId) ==
  LET Fail(status) == /\ response' = Resp("getDownloadUrl", status)
                      /\ audited' = <<>>
                      /\ UNCHANGED downloadCache
  IN  /\ IF fileId \notin FileIds \/ files[fileId].deletedAt # 0 THEN Fail("NotFound")
         ELSE IF ~checkAccess(u, fileId) THEN Fail("Forbidden")
         ELSE IF <<fileId, u>> \in downloadCache
         THEN /\ response' = Resp("getDownloadUrl", "Success")
              /\ audited' = <<>>
              /\ UNCHANGED downloadCache
         ELSE /\ downloadCache' = downloadCache \cup {<<fileId, u>>}
              /\ IF AuditValid("download")
                 THEN /\ audited' = <<AuditRec(u, "download", fileId)>>
                      /\ response' = Resp("getDownloadUrl", "Success")
                 ELSE /\ audited' = <<>>
                      /\ response' = Resp("getDownloadUrl", "ValidationError")
      /\ UNCHANGED <<storeVars, queueVars, requests, workerVars>>

\* The 600 seconds of a cached download URL run out (Redis drops the key).
expireDownloadUrl(u, fileId) ==
  /\ <<fileId, u>> \in downloadCache
  /\ downloadCache' = downloadCache \ {<<fileId, u>>}
  /\ response' = Resp("expireDownloadUrl", "Success")
  /\ audited' = <<>>
  /\ UNCHANGED <<storeVars, queueVars, requests, workerVars>>
\* ------------------------------------------------------------- QuotaService
\* A total over every file of the user, the soft-deleted ones included.
RECURSIVE AggregateTotalMutant(_, _)
AggregateTotalMutant(fl, u) ==
  IF fl = <<>> THEN 0
  ELSE (IF Head(fl).userId = u THEN Head(fl).size ELSE 0) + AggregateTotalMutant(Tail(fl), u)

\* File.aggregate([{$match: {userId, deletedAt: null}},
\*                 {$group: {_id: null, total: {$sum: '$size'}}}]); result[0]?.total || 0
RECURSIVE AggregateTotal(_, _)
AggregateTotal(fl, u) ==
  IF fl = <<>> THEN 0
  ELSE (IF Head(fl).userId = u /\ Head(fl).deletedAt = 0 THEN Head(fl).size ELSE 0)
         + AggregateTotal(Tail(fl), u)

\* recalculateUsage(userId): User.findByIdAndUpdate(userId, {storageUsed: totalSize})
recalculateUsage(u) ==
  /\ storageUsed' = [storageUsed EXCEPT ![u] = AggregateTotal(files, u)]
  /\ response' = Resp("recalculateUsage", "Success")
  /\ audited' = <<>>
  /\ UNCHANGED <<folders, files, queueVars, requests, downloadCache, workerVars>>

\* The deltas callers hand to updateUsage.
Deltas == {-1, 1}

\* updateUsage(userId, delta): User.findByIdAndUpdate(userId, {$inc: {storageUsed: delta}}).
\* An update operator runs no schema validator (min: 0 is checked by save()
\* and create() only), and $inc adds the delta as it is.
updateUsage(u, delta) ==
  /\ storageUsed[u] + delta \in (0 - MaxUsage)..MaxUsage
  /\ storageUsed' = [storageUsed EXCEPT ![u] = @ + delta]
  /\ response' = Resp("updateUsage", "Success")
  /\ audited' = <<>>
  /\ UNCHANGED <<folders, files, queueVars, requests, downloadCache, workerVars>>
\* -------------------------------------------------------------------- worker
\* The worker process starts (again) and runs setupQueues(): connect, assert
\* the queues, prefetch(1), register the consumers.  The callbacks of the
\* process it replaces are gone, and the messages they held on an open channel
\* return to their queues.
setupQueues ==
  /\ workerUp' = (enableRabbitMQ /\ brokerUp)
  /\ brokerQueue' = IF workerUp THEN Requeue(brokerQueue, unacked) ELSE brokerQueue
  /\ unacked' = [q \in QUEUES |-> <<>>]
  /\ response' = Resp("setupQueues", IF enableRabbitMQ /\ brokerUp THEN "Success" ELSE "Idle")
  /\ audited' = <<>>
  /\ UNCHANGED <<storeVars, enableRabbitMQ, requests, downloadCache, brokerUp, connected, isEnabled, channel,
                 inMemoryQueue, deadLetter, deliveries, failed>>

\* channel.prefetch(1): the number of unacknowledged messages a consumer may hold
Prefetch == 1

\* A consumer without a prefetch limit: the broker pushes every ready message.
DeliverUnlimited(queue) ==
  /\ workerUp /\ brokerUp
  /\ queue \in {UPLOAD, DOWNLOAD}
  /\ brokerQueue[queue] # <<>>
  /\ unacked' = [unacked EXCEPT ![queue] =
                   Append(@, [job |-> Head(brokerQueue[queue]), state |-> "delivered"])]
  /\ brokerQueue' = [brokerQueue EXCEPT ![queue] = Tail(@)]
  /\ response' = Resp("Deliver", "Success")
  /\ audited' = <<>>
  /\ UNCHANGED <<storeVars, enableRabbitMQ, requests, downloadCache, brokerUp, connected, isEnabled, channel,
                 inMemoryQueue, deadLetter, workerUp, deliveries, failed>>
\* A consumer that registers only on the upload queue.
DeliverMutant(queue) ==
  /\ queue = UPLOAD
  /\ workerUp /\ brokerUp
  /\ brokerQueue[queue] # <<>>
  /\ Len(unacked[queue]) < Prefetch
  /\ unacked' = [unacked EXCEPT ![queue] =
                   Append(@, [job |-> Head(brokerQueue[queue]), state |-> "delivered"])]
  /\ brokerQueue' = [brokerQueue EXCEPT ![queue] = Tail(@)]
  /\ response' = Resp("Deliver", "Success")
  /\ audited' = <<>>
  /\ UNCHANGED <<storeVars, enableRabbitMQ, requests, downloadCache, brokerUp, connected, isEnabled, channel,
                 inMemoryQueue, deadLetter, workerUp, deliveries, failed>>
\* The broker hands the head of a consumed queue to its consumer.
Deliver(queue) ==
  /\ workerUp /\ brokerUp
  /\ queue \in {UPLOAD, DOWNLOAD}
  /\ brokerQueue[queue] # <<>>
  /\ Len(unacked[queue]) < Prefetch
  /\ unacked' = [unacked EXCEPT ![queue] =
                   Append(@, [job |-> Head(brokerQueue[queue]), state |-> "delivered"])]
  /\ brokerQueue' = [brokerQueue EXCEPT ![queue] = Tail(@)]
  /\ response' = Resp("Deliver", "Success")
  /\ audited' = <<>>
  /\ UNCHANGED <<storeVars, enableRabbitMQ, requests, downloadCache, brokerUp, connected, isEnabled, channel,
                 inMemoryQueue, deadLetter, workerUp, deliveries, failed>>

\* User.findByIdAndUpdate(job.userId, {$inc: {storageUsed: job.size}})
IncStorageUsed(su, job) == [su EXCEPT ![job.userId] = @ + job.size]

\* UploadProcessor.process(job), called by the upload consumer; auditOk is
\* whether the store accepts the AuditLog.create write.
UploadProcess(auditOk) ==
  /\ unacked[UPLOAD] # <<>>
  /\ unacked[UPLOAD][1].state = "delivered"
  /\ LET job == unacked[UPLOAD][1].job
     IN  IF job.fileId \notin 1..Len(files)
         THEN /\ unacked' = [unacked EXCEPT ![UPLOAD][1].state = "failed"]
              /\ failed' = [failed EXCEPT ![UPLOAD] = @ \cup {job}]
              /\ audited' = <<>>
              /\ response' = Resp("UploadProcess", "Error")
              /\ UNCHANGED <<storageUsed, deliveries>>
         ELSE /\ deliveries[job.fileId] < MaxDeliveries
              /\ storageUsed' = IncStorageUsed(storageUsed, job)
              /\ deliveries' = [deliveries EXCEPT ![job.fileId] = @ + 1]
              /\ IF auditOk /\ AuditValid("upload")
                 THEN /\ audited' = <<AuditRec(job.userId, "upload", job.fileId)>>
                      /\ unacked' = [unacked EXCEPT ![UPLOAD][1].state = "processed"]
                      /\ response' = Resp("UploadProcess", "Success")
                      /\ UNCHANGED failed
                 ELSE /\ audited' = <<>>
                      /\ unacked' = [unacked EXCEPT ![UPLOAD][1].state = "failed"]
                      /\ failed' = [failed EXCEPT ![UPLOAD] = @ \cup {job}]
                      /\ response' = Resp("UploadProcess", "Error")
  /\ UNCHANGED <<folders, files, queueVars, requests, downloadCache, workerUp>>

\* DownloadProcessor.process(job), called by the download consumer: it only
\* writes the audit record.
DownloadProcess(auditOk) ==
  /\ unacked[DOWNLOAD] # <<>>
  /\ unacked[DOWNLOAD][1].state = "delivered"
  /\ LET job == unacked[DOWNLOAD][1].job
     IN  IF auditOk /\ AuditValid("download")
         THEN /\ audited' = <<AuditRec(job.userId, "download", job.fileId)>>
              /\ unacked' = [unacked EXCEPT ![DOWNLOAD][1].state = "processed"]
              /\ response' = Resp("DownloadProcess", "Success")
              /\ UNCHANGED failed
         ELSE /\ audited' = <<>>
              /\ unacked' = [unacked EXCEPT ![DOWNLOAD][1].state = "failed"]
              /\ failed' = [failed EXCEPT ![DOWNLOAD] = @ \cup {job}]
              /\ response' = Resp("DownloadProcess", "Error")
  /\ UNCHANGED <<storeVars, queueVars, requests, downloadCache, workerUp, deliveries>>

\* channel.ack(msg), the statement after `await processor.process(job)` inside
\* the try block.  On a channel that was lost meanwhile ack throws, and control
\* passes to the catch block.
Ack(queue) ==
  /\ unacked[queue] # <<>>
  /\ unacked[queue][1].state = "processed"
  /\ IF workerUp
     THEN /\ unacked' = [unacked EXCEPT ![queue] = Tail(@)]
          /\ response' = Resp("Ack", "Success")
     ELSE /\ unacked' = [unacked EXCEPT ![queue][1].state = "caught"]
          /\ response' = Resp("Ack", "Error")
  /\ audited' = <<>>
  /\ UNCHANGED <<storeVars, queueVars, requests, downloadCache, workerUp, deliveries, failed>>

\* channel.assertQueue(queue, {durable: true}): the arguments the worker
\* declares its queues with
QueueArguments(queue) == {"durable"}

\* A rejected message is dead-lettered when its queue names an exchange for it.
DeadLettered(queue) == "deadLetterExchange" \in QueueArguments(queue)

\* A negative acknowledgement that asks the broker to requeue the message.
NackMutant(queue) ==
  /\ unacked[queue] # <<>>
  /\ unacked[queue][1].state \in {"failed", "caught"}
  /\ unacked' = [unacked EXCEPT ![queue] = Tail(@)]
  /\ brokerQueue' = IF workerUp
                    THEN [brokerQueue EXCEPT ![queue] = <<unacked[queue][1].job>> \o @]
                    ELSE brokerQueue
  /\ response' = Resp("Nack", IF workerUp THEN "Success" ELSE "Error")
  /\ audited' = <<>>
  /\ UNCHANGED <<storeVars, enableRabbitMQ, requests, downloadCache, brokerUp, connected, isEnabled, channel,
                 inMemoryQueue, deadLetter, workerUp, deliveries, failed>>
\* channel.nack(msg, false, false) in the catch block, entered when parsing
\* or processing threw or when ack threw: the message is not requeued; the
\* broker dead-letters it when its queue says so and discards it otherwise.
\* On a lost channel nack throws as well and the callback ends.
Nack(queue) ==
  /\ unacked[queue] # <<>>
  /\ unacked[queue][1].state \in {"failed", "caught"}
  /\ unacked' = [unacked EXCEPT ![queue] = Tail(@)]
  /\ deadLetter' = IF workerUp /\ DeadLettered(queue)
                   THEN [deadLetter EXCEPT ![queue] = Append(@, unacked[queue][1].job)]
                   ELSE deadLetter
  /\ response' = Resp("Nack", IF workerUp THEN "Success" ELSE "Error")
  /\ audited' = <<>>
  /\ UNCHANGED <<storeVars, enableRabbitMQ, requests, downloadCache, brokerUp, connected, isEnabled, channel,
                 inMemoryQueue, brokerQueue, workerUp, deliveries, failed>>

\* ------------------------------------------------------------ specifications
Init ==
  /\ folders = <<>>
  /\ files = <<>>
  /\ storageUsed = [u \in Users |-> 0]
  /\ enableRabbitMQ \in BOOLEAN
  /\ brokerUp \in BOOLEAN
  /\ connected = FALSE
  /\ workerUp = FALSE
  /\ isEnabled = FALSE
  /\ channel = FALSE
  /\ inMemoryQueue = [q \in QUEUES |-> <<>>]
  /\ brokerQueue = [q \in QUEUES |-> <<>>]
  /\ unacked = [q \in QUEUES |-> <<>>]
  /\ deliveries = [f \in 1..(MaxFiles + 1) |-> 0]
  /\ deadLetter = [q \in QUEUES |-> <<>>]
  /\ failed = [q \in QUEUES |-> {}]
  /\ requests = [r \in Reqs |-> IdleRequest]
  /\ downloadCache = {}
  /\ response = Resp("init", "Success")
  /\ audited = <<>>

\* Specifications of the folder tree run with the broker disabled by
\* configuration and no worker.
InitFolders == Init /\ ~enableRabbitMQ /\ ~brokerUp

\* The five folder mutators.
NextTree ==
  \/ \E u \in Users, name \in NameInputs, parentId \in 0..MaxFolders :
       createFolder(u, name, parentId)
  \/ \E u \in Users, folderId \in 1..MaxFolders, name \in NameInputs :
       updateFolder(u, folderId, name)
  \/ \E u \in Users, folderId \in 1..MaxFolders, targetParentId \in 0..MaxFolders :
       moveFolder(u, folderId, targetParentId)
  \/ \E u \in Users, folderId \in 1..MaxFolders : deleteFolder(u, folderId)
  \/ \E u \in Users, folderId \in 1..MaxFolders : restoreFolder(u, folderId)

SpecTree == InitFolders /\ [][NextTree]_vars

\* The folder mutators and the folder listing, called by two users on each
\* other's folder ids.
NextAccess ==
  \/ NextTree
  \/ \E u \in Users, folderId \in 1..MaxFolders : getFolderContents(u, folderId)

SpecAccess == InitFolders /\ [][NextAccess]_vars

\* The folder mutators together with the two file handlers that put files
\* into folders and into the trash.
Owner == "u1"

NextCascade ==
  \/ \E name \in NameInputs, parentId \in 0..MaxFolders :
       createFolder(Owner, name, parentId)
  \/ \E folderId \in 1..MaxFolders, name \in NameInputs :
       updateFolder(Owner, folderId, name)
  \/ \E folderId \in 1..MaxFolders : deleteFolder(Owner, folderId)
  \/ \E folderId \in 1..MaxFolders : restoreFolder(Owner, folderId)
  \/ \E name \in FileNames, folderId \in 0..Len(folders) :
       upload(Owner, TRUE, name, folderId, 1)
  \/ \E fileId \in 1..MaxFiles : deleteFile(Owner, fileId)

SpecCascade == InitFolders /\ [][NextCascade]_vars

\* The store after createFolder built a chain: folder 1 under the root and
\* every further folder in the one before it, their paths as createFolder
\* computes them.
RECURSIVE Chain(_, _)
\* The folder and file handlers of the cascade with a store that can reject
\* any call of deleteFolder.
NextFaults ==
  \/ NextCascade
  \/ \E folderId \in 1..MaxFolders, failAt \in DeleteSteps :
       deleteFolderFault(Owner, folderId, failAt)

SpecFaults == InitFolders /\ [][NextFaults]_vars
Chain(u, names) ==
  IF names = <<>> THEN <<>>
  ELSE LET above == Chain(u, SubSeq(names, 1, Len(names) - 1))
           parentId == Len(above)
           name == names[Len(names)]
           parentPath == IF parentId # 0 THEN above[parentId].path ELSE <<>>
       IN  Append(above, [userId |-> u, parentId |-> parentId, name |-> name,
                          path |-> ComputePath(parentPath, name), deletedAt |-> 0])

InitChain ==
  /\ \E names \in [1..ChainLen -> Names] : folders = Chain(Owner, names)
  /\ files = <<>>
  /\ storageUsed = [u \in Users |-> 0]
  /\ enableRabbitMQ = FALSE
  /\ brokerUp = FALSE
  /\ connected = FALSE
  /\ workerUp = FALSE
  /\ isEnabled = FALSE
  /\ channel = FALSE
  /\ inMemoryQueue = [q \in QUEUES |-> <<>>]
  /\ brokerQueue = [q \in QUEUES |-> <<>>]
  /\ unacked = [q \in QUEUES |-> <<>>]
  /\ deliveries = [f \in 1..(MaxFiles + 1) |-> 0]
  /\ deadLetter = [q \in QUEUES |-> <<>>]
  /\ failed = [q \in QUEUES |-> {}]
  /\ requests = [r \in Reqs |-> IdleRequest]
  /\ downloadCache = {}
  /\ response = Resp("init", "Success")
  /\ audited = <<>>

\* Delete and restore along a chain of nested folders that holds a file.
NextChain ==
  \/ \E folderId \in 1..ChainLen : deleteFolder(Owner, folderId)
  \/ \E folderId \in 1..ChainLen : restoreFolder(Owner, folderId)
  \/ \E name \in FileNames, folderId \in 1..ChainLen :
       upload(Owner, TRUE, name, folderId, 1)

SpecChain == InitChain /\ [][NextChain]_vars

\* The store after a user created a root folder `name`, deleted it, and did so
\* again until n folders exist: the first n - 1 in the trash with the
\* timestamps 1 .. n - 1, the last one live.
Trash(u, name, n) ==
  [i \in 1..n |-> [userId |-> u, parentId |-> 0, name |-> name,
                   path |-> ComputePath(<<>>, name),
                   deletedAt |-> IF i < n THEN i ELSE 0]]

InitTrash ==
  /\ \E name \in Names : folders = Trash(Owner, name, TrashLen)
  /\ files = <<>>
  /\ storageUsed = [u \in Users |-> 0]
  /\ enableRabbitMQ = FALSE
  /\ brokerUp = FALSE
  /\ connected = FALSE
  /\ workerUp = FALSE
  /\ isEnabled = FALSE
  /\ channel = FALSE
  /\ inMemoryQueue = [q \in QUEUES |-> <<>>]
  /\ brokerQueue = [q \in QUEUES |-> <<>>]
  /\ unacked = [q \in QUEUES |-> <<>>]
  /\ deliveries = [f \in 1..(MaxFiles + 1) |-> 0]
  /\ deadLetter = [q \in QUEUES |-> <<>>]
  /\ failed = [q \in QUEUES |-> {}]
  /\ requests = [r \in Reqs |-> IdleRequest]
  /\ downloadCache = {}
  /\ response = Resp("init", "Success")
  /\ audited = <<>>

\* Restores, renames and moves over a trash that holds several folders of one
\* name.
NextTrash ==
  \/ \E folderId \in 1..TrashLen : restoreFolder(Owner, folderId)
  \/ \E folderId \in 1..TrashLen, name \in Names : updateFolder(Owner, folderId, name)
  \/ \E folderId \in 1..TrashLen, targetParentId \in 0..TrashLen :
       moveFolder(Owner, folderId, targetParentId)

SpecTrash == InitTrash /\ [][NextTrash]_vars
\* Concurrent createFolder calls, one per request slot, interleaved at their
\* awaits.
NextRace ==
  \/ \E r \in Reqs, u \in Users, name \in NameInputs, parentId \in 0..MaxFolders :
       createFolderCheck(r, u, name, parentId)
  \/ \E r \in Reqs : createFolderInsert(r)
  \/ \E r \in Reqs : createFolderAudit(r)

SpecRace == InitFolders /\ [][NextRace]_vars

\* The upload pipeline: the API's upload and delete handlers, the QueueService
\* life cycle, the broker and the worker's upload consumer.  No folder exists.
NextUpload ==
  \/ \E u \in Users, hasFile \in BOOLEAN, name \in FileNames, size \in Sizes :
       upload(u, hasFile, name, 0, size)
  \/ \E u \in Users, fileId \in 1..MaxFiles : deleteFile(u, fileId)
  \/ connect
  \/ onConnectionClose
  \/ close
  \/ BrokerStart
  \/ BrokerStop
  \/ setupQueues
  \/ Deliver(UPLOAD)
  \/ \E auditOk \in BOOLEAN : UploadProcess(auditOk)
  \/ Ack(UPLOAD)
  \/ Nack(UPLOAD)

SpecUpload == Init /\ [][NextUpload]_vars

\* Downloads: two users upload, delete and ask for download URLs of every
\* file id, their own, the other's and ids no file has, with the queue service
\* in any of its configurations.
NextDownload ==
  \/ \E u \in Users, hasFile \in BOOLEAN, name \in FileNames, size \in Sizes :
       upload(u, hasFile, name, 0, size)
  \/ \E u \in Users, fileId \in 1..MaxFiles : deleteFile(u, fileId)
  \/ \E u \in Users, fileId \in 1..(MaxFiles + 1) : getDownloadUrl(u, fileId)
  \/ \E u \in Users, fileId \in 1..MaxFiles : expireDownloadUrl(u, fileId)
  \/ connect

SpecDownload == Init /\ [][NextDownload]_vars
\* The file handlers of one user over files that can share a folder and a
\* name: uploads of up to MaxNamedFiles files into the root or the folder,
\* renames, moves and deletes, with one folder to move into.
NextFiles ==
  \/ createFolder(Owner, <<"A">>, 0)
  \/ \E name \in Names, folderId \in 0..Len(folders) :
       uploadBounded(MaxNamedFiles, Owner, TRUE, name, folderId, 1)
  \/ \E fileId \in 1..MaxNamedFiles, name \in NameInputs : updateFile(Owner, fileId, name)
  \/ \E fileId \in 1..MaxNamedFiles, targetFolderId \in 0..1 :
       moveFile(Owner, fileId, targetFolderId)
  \/ \E fileId \in 1..MaxNamedFiles : deleteFile(Owner, fileId)

SpecFiles == InitFolders /\ [][NextFiles]_vars
\* The upload pipeline of one user together with the QuotaService calls.
NextQuota ==
  \/ \E name \in FileNames, size \in Sizes : upload(Owner, TRUE, name, 0, size)
  \/ \E fileId \in 1..MaxFiles : deleteFile(Owner, fileId)
  \/ recalculateUsage(Owner)
  \/ \E delta \in Deltas : updateUsage(Owner, delta)
  \/ connect
  \/ BrokerStart
  \/ BrokerStop
  \/ onConnectionClose
  \/ setupQueues
  \/ Deliver(UPLOAD)
  \/ \E auditOk \in BOOLEAN : UploadProcess(auditOk)
  \/ Ack(UPLOAD)
  \/ Nack(UPLOAD)

SpecQuota == Init /\ [][NextQuota]_vars

\* Admission: one user uploads up to MaxNamedFiles files while the worker's
\* upload consumer processes the jobs, in every interleaving and with the
\* queue service in any of its configurations.
NextAdmit ==
  \/ \E name \in FileNames, size \in Sizes :
       uploadBounded(MaxNamedFiles, Owner, TRUE, name, 0, size)
  \/ \E fileId \in 1..MaxNamedFiles : deleteFile(Owner, fileId)
  \/ connect
  \/ BrokerStart
  \/ setupQueues
  \/ Deliver(UPLOAD)
  \/ \E auditOk \in BOOLEAN : UploadProcess(auditOk)
  \/ Ack(UPLOAD)
  \/ Nack(UPLOAD)

SpecAdmit == Init /\ [][NextAdmit]_vars

\* A rename, move, delete or restore of a folder issued by u, with the
\* cascade it runs.
FolderOpBy(u) ==
  \/ \E folderId \in 1..ChainLen, name \in Names : updateFolder(u, folderId, name)
  \/ \E folderId \in 1..ChainLen, targetParentId \in 0..ChainLen :
       moveFolder(u, folderId, targetParentId)
  \/ \E folderId \in 1..ChainLen : deleteFolder(u, folderId)
  \/ \E folderId \in 1..ChainLen : restoreFolder(u, folderId)

\* The store after one user created a chain of nested folders and another
\* user a root folder, the names chosen freely: the two users can own folders
\* with the same path.
InitShared ==
  /\ \E names \in [1..(ChainLen - 1) -> Names], name \in Names :
       folders = Chain("u2", names) \o Chain(Owner, <<name>>)
  /\ files = <<>>
  /\ storageUsed = [u \in Users |-> 0]
  /\ enableRabbitMQ = FALSE
  /\ brokerUp = FALSE
  /\ connected = FALSE
  /\ workerUp = FALSE
  /\ isEnabled = FALSE
  /\ channel = FALSE
  /\ inMemoryQueue = [q \in QUEUES |-> <<>>]
  /\ brokerQueue = [q \in QUEUES |-> <<>>]
  /\ unacked = [q \in QUEUES |-> <<>>]
  /\ deliveries = [f \in 1..(MaxFiles + 1) |-> 0]
  /\ deadLetter = [q \in QUEUES |-> <<>>]
  /\ failed = [q \in QUEUES |-> {}]
  /\ requests = [r \in Reqs |-> IdleRequest]
  /\ downloadCache = {}
  /\ response = Resp("init", "Success")
  /\ audited = <<>>

\* Two users rename, move, delete and restore over each other's folder ids.
NextShared == \E u \in Users : FolderOpBy(u)

SpecShared == InitShared /\ [][NextShared]_vars

\* One user's createFolder calls running step by step while the same user
\* deletes folders, moves folders and uploads and moves files: every await of
\* createFolder is a point where the other handlers run.
NextOrphan ==
  \/ \E r \in Reqs, name \in Names, parentId \in 0..MaxFolders :
       createFolderCheck(r, Owner, name, parentId)
  \/ \E r \in Reqs : createFolderInsert(r)
  \/ \E r \in Reqs : createFolderAudit(r)
  \/ \E folderId \in 1..MaxFolders : deleteFolder(Owner, folderId)
  \/ \E folderId \in 1..MaxFolders, targetParentId \in 0..MaxFolders :
       moveFolder(Owner, folderId, targetParentId)
  \/ \E name \in FileNames, folderId \in 0..Len(folders) :
       upload(Owner, TRUE, name, folderId, 1)
  \/ \E fileId \in 1..MaxFiles, targetFolderId \in 0..MaxFolders :
       moveFile(Owner, fileId, targetFolderId)

SpecOrphan == InitFolders /\ [][NextOrphan]_vars
\* The jobs a component other than the upload handler publishes.
DirectJobs(queue) ==
  IF queue = DOWNLOAD
  THEN {[fileId |-> f, userId |-> Owner, fileName |-> <<"f">>] : f \in 1..MaxFiles}
  ELSE {[fileId |-> f, userId |-> Owner, inputPath |-> <<"f">>, outputFormat |-> "hls"] :
          f \in 1..MaxFiles}

\* The job pipeline end to end: every publisher, the QueueService life cycle,
\* the broker, and both consumers of the worker with their processors.
NextJobs ==
  \/ \E name \in FileNames, size \in Sizes : upload(Owner, TRUE, name, 0, size)
  \/ \E fileId \in 1..MaxFiles : deleteFile(Owner, fileId)
  \/ \E queue \in {DOWNLOAD, TRANSCODE} : \E data \in DirectJobs(queue) :
       publishJob(queue, data)
  \/ \E queue \in QUEUES : inMemoryQueue[queue] # <<>> /\ clearInMemoryQueue(queue)
  \/ connect
  \/ onConnectionClose
  \/ close
  \/ BrokerStart
  \/ BrokerStop
  \/ setupQueues
  \/ \E queue \in {UPLOAD, DOWNLOAD} : Deliver(queue)
  \/ \E auditOk \in BOOLEAN : UploadProcess(auditOk)
  \/ \E auditOk \in BOOLEAN : DownloadProcess(auditOk)
  \/ \E queue \in {UPLOAD, DOWNLOAD} : Ack(queue)
  \/ \E queue \in {UPLOAD, DOWNLOAD} : Nack(queue)

SpecJobs == Init /\ [][NextJobs]_vars

\* The QueueService alone: its three publishers (uploads put up to
\* MaxNamedFiles jobs into the upload queue), its life cycle and the clearing
\* of its buffers; no worker consumes.
NextBuffer ==
  \/ \E name \in FileNames : uploadBounded(MaxNamedFiles, Owner, TRUE, name, 0, 1)
  \/ \E queue \in {DOWNLOAD, TRANSCODE} : \E data \in DirectJobs(queue) :
       publishJob(queue, data)
  \/ \E queue \in QUEUES : clearInMemoryQueue(queue)
  \/ connect
  \/ onConnectionClose
  \/ close
  \/ BrokerStart
  \/ BrokerStop

SpecBuffer == Init /\ [][NextBuffer]_vars
\* The pipeline while the consumer, once connected, stays connected: the
\* broker never stops and the worker starts once.  Messages are told apart by
\* their content, so a job is published directly only while no message with
\* the same content is ready at the broker or held by a consumer callback.
NextSteady ==
  \/ \E name \in FileNames, size \in Sizes : upload(Owner, TRUE, name, 0, size)
  \/ \E fileId \in 1..MaxFiles : deleteFile(Owner, fileId)
  \/ \E queue \in {DOWNLOAD, TRANSCODE} : \E data \in DirectJobs(queue) :
       /\ \A i \in 1..Len(brokerQueue[queue]) : brokerQueue[queue][i] # data
       /\ \A i \in 1..Len(unacked[queue]) : unacked[queue][i].job # data
       /\ publishJob(queue, data)
  \/ connect
  \/ onConnectionClose
  \/ BrokerStart
  \/ ~workerUp /\ setupQueues
  \/ \E queue \in {UPLOAD, DOWNLOAD} : Deliver(queue)
  \/ \E auditOk \in BOOLEAN : UploadProcess(auditOk)
  \/ \E auditOk \in BOOLEAN : DownloadProcess(auditOk)
  \/ \E queue \in {UPLOAD, DOWNLOAD} : Ack(queue)
  \/ \E queue \in {UPLOAD, DOWNLOAD} : Nack(queue)

\* Weak fairness of delivery and processing: the broker hands a ready message
\* to a registered consumer that has prefetch room, every processor call
\* returns or throws, and the ack or nack statement after it runs.
FairSteady ==
  /\ \A queue \in {UPLOAD, DOWNLOAD} :
       /\ WF_vars(Deliver(queue))
       /\ WF_vars(Ack(queue))
       /\ WF_vars(Nack(queue))
  /\ WF_vars(\E auditOk \in BOOLEAN : UploadProcess(auditOk))
  /\ WF_vars(\E auditOk \in BOOLEAN : DownloadProcess(auditOk))

SpecSteady == Init /\ [][NextSteady]_vars /\ FairSteady

\* =================================================================== claims
\* The tree the parentId fields describe.
RECURSIVE AncestorAt(_, _, _)
AncestorAt(fs, d, k) ==
  IF k = 0 THEN d
  ELSE LET a == AncestorAt(fs, d, k - 1)
       IN  IF a \in 1..Len(fs) THEN fs[a].parentId ELSE 0

\* d is a proper descendant of f
IsDescendantOf(fs, d, f) ==
  /\ d \in 1..Len(fs)
  /\ f \in 1..Len(fs)
  /\ \E k \in 1..Len(fs) : AncestorAt(fs, d, k) = f

\* f itself or any of its descendants
InSubtree(fs, d, f) == d = f \/ IsDescendantOf(fs, d, f)

\* C1: every stored folder, deleted or not, has the path "/" + name when its
\* parentId is null and parent's path + "/" + name otherwise.
C1_PathInvariant ==
  \A i \in FolderIds :
    folders[i].path =
      IF folders[i].parentId = 0
      THEN Slash \o folders[i].name
      ELSE folders[folders[i].parentId].path \o Slash \o folders[i].name

\* No two non-deleted folders of one user under one parent share a name.
SiblingUnique ==
  \A a, b \in FolderIds :
    (/\ a # b
     /\ folders[a].deletedAt = 0 /\ folders[b].deletedAt = 0
     /\ folders[a].userId = folders[b].userId
     /\ folders[a].parentId = folders[b].parentId)
      => folders[a].name # folders[b].name

\* A non-deleted folder of u other than `self` is called `name` under parentId.
NameTaken(u, parentId, name, self) ==
  \E d \in FolderIds \ {self} :
    /\ folders[d].deletedAt = 0
    /\ folders[d].userId = u
    /\ folders[d].parentId = parentId
    /\ folders[d].name = name

StoreUnchanged == folders' = folders /\ files' = files /\ storageUsed' = storageUsed

\* A create under the root or under a live folder of the caller, with a name
\* a live sibling already has, answers DuplicateName and changes nothing.
CreateCollisionRejected ==
  \A u \in Users, name \in Names, parentId \in 0..MaxFolders :
    (/\ parentId = 0 \/ FindActive(folders, parentId, u)
     /\ NameTaken(u, parentId, name, 0)
     /\ createFolder(u, name, parentId))
      => response'.status = "DuplicateName" /\ StoreUnchanged

\* A rename of a live folder of the caller to a name a live sibling already
\* has answers DuplicateName and changes nothing.
RenameCollisionRejected ==
  \A u \in Users, folderId \in 1..MaxFolders, name \in Names :
    (/\ FindActive(folders, folderId, u)
     /\ NameTaken(u, folders[folderId].parentId, name, folderId)
     /\ updateFolder(u, folderId, name))
      => response'.status = "DuplicateName" /\ StoreUnchanged

\* C2: after any sequence of folder create, rename, move, delete and restore,
\* no two non-deleted folders with the same (userId, parentId) have the same
\* name; a create or rename that would produce such a collision fails with
\* DuplicateName and leaves the store unchanged.
C2_SiblingUniqueness ==
  /\ []SiblingUnique
  /\ [][CreateCollisionRejected /\ RenameCollisionRejected]_vars

\* A rename into a live sibling's name has just been refused, both folders
\* being live siblings under the root.
C2_Witness ==
  /\ response = Resp("updateFolder", "DuplicateName")
  /\ Len(folders) = 2
  /\ folders[1].deletedAt = 0 /\ folders[2].deletedAt = 0
  /\ folders[1].parentId = folders[2].parentId
  /\ folders[1].userId = folders[2].userId

\* C3: when deleteFolder(F) by F's owner returns success, F, every previously
\* non-deleted descendant folder of F and every previously non-deleted file
\* whose folderId is F or a descendant of F carry the same deletedAt timestamp.
C3_CascadeComplete ==
  [][\A u \in Users, f \in 1..MaxFolders :
       (/\ FindActive(folders, f, u)
        /\ response' = Resp("deleteFolder", "Success")
        /\ deleteFolder(u, f))
         => LET t == folders'[f].deletedAt
            IN  /\ t # 0
                /\ \A d \in FolderIds :
                     (folders[d].deletedAt = 0 /\ IsDescendantOf(folders, d, f))
                       => folders'[d].deletedAt = t
                /\ \A x \in FileIds :
                     (files[x].deletedAt = 0 /\ InSubtree(folders, files[x].folderId, f))
                       => files'[x].deletedAt = t]_vars

\* C4: deleteFolder(F) changes deletedAt of no folder outside F's subtree and
\* of no file whose folder is outside F's subtree.
C4_DeleteFrame ==
  [][\A u \in Users, f \in 1..MaxFolders :
       (/\ FindActive(folders, f, u)
        /\ response'.op = "deleteFolder"
        /\ deleteFolder(u, f))
         => /\ \A d \in FolderIds :
                 ~InSubtree(folders, d, f) => folders'[d].deletedAt = folders[d].deletedAt
            /\ \A x \in FileIds :
                 ~InSubtree(folders, files[x].folderId, f)
                   => files'[x].deletedAt = files[x].deletedAt]_vars

\* The ids whose deletedAt a delete of f set, f itself excluded.
MarkedFolders(before, after, f) ==
  {d \in 1..Len(before) \ {f} : before[d].deletedAt = 0 /\ after[d].deletedAt # 0}
MarkedFiles(before, after) ==
  {x \in 1..Len(before) : before[x].deletedAt = 0 /\ after[x].deletedAt # 0}

\* C5: for every live folder F, delete(F); restore(F); delete(F), all three
\* succeeding, marks in the second delete exactly the descendant folder ids
\* and file ids the first delete marked.
C5_DeleteRestoreDelete ==
  \A u \in Users, f \in FolderIds :
    FindActive(folders, f, u) =>
      \A S1 \in DeleteWritten(folders, u, f, Now(folders, files)) :
        LET d1 == DeleteFolderEffect(folders, files, u, f, Now(folders, files), S1)
        IN  d1.status = "Success" =>
              \A S2 \in RestoreWritten(d1.folders, u, f) :
                LET r == RestoreFolderEffect(d1.folders, d1.files, u, f, S2)
                    now2 == Now(r.folders, r.files)
                IN  r.status = "Success" =>
                      \A S3 \in DeleteWritten(r.folders, u, f, now2) :
                        LET d2 == DeleteFolderEffect(r.folders, r.files, u, f, now2, S3)
                        IN  d2.status = "Success" =>
                              /\ MarkedFolders(r.folders, d2.folders, f)
                                   = MarkedFolders(folders, d1.folders, f)
                              /\ MarkedFiles(r.files, d2.files)
                                   = MarkedFiles(files, d1.files)

\* C6: moveFolder(F, T) of live folders of the caller with T = F or T a
\* descendant of F answers InvalidMove and changes no parentId and no path.
C6_NoMoveIntoSelf ==
  [][\A u \in Users, f \in 1..MaxFolders, t \in 1..MaxFolders :
       (/\ FindActive(folders, f, u) /\ FindActive(folders, t, u)
        /\ InSubtree(folders, t, f)
        /\ moveFolder(u, f, t))
         => /\ response'.status = "InvalidMove"
            /\ \A i \in FolderIds : /\ folders'[i].parentId = folders[i].parentId
                                    /\ folders'[i].path = folders[i].path]_vars

\* An upload the handler refuses leaves no File row, no job and no quota delta.
NoUploadEffect ==
  /\ files' = files
  /\ inMemoryQueue' = inMemoryQueue
  /\ brokerQueue' = brokerQueue
  /\ storageUsed' = storageUsed

\* C7 (as stated): an upload of size s by u with storageUsed + s > storageQuota
\* is rejected with QuotaExceeded, creating no File row, publishing no job and
\* leaving storageUsed unchanged.
C7_QuotaGate ==
  [][\A u \in Users, name \in FileNames, size \in Sizes :
       (storageUsed[u] + size > StorageQuota /\ upload(u, TRUE, name, 0, size))
         => response'.status = "QuotaExceeded" /\ NoUploadEffect]_vars

\* C7 (amended): an upload of a file no larger than MAX_FILE_SIZE with
\* storageUsed + s > storageQuota is rejected with QuotaExceeded; every upload
\* over the quota, whatever its size, creates no File row, publishes no job and
\* leaves storageUsed unchanged.
C7_QuotaGateWithinMaxSize ==
  [][\A u \in Users, name \in FileNames, size \in Sizes :
       (storageUsed[u] + size > StorageQuota /\ upload(u, TRUE, name, 0, size))
         => /\ size <= MAX_FILE_SIZE => response'.status = "QuotaExceeded"
            /\ response'.status # "Success"
            /\ NoUploadEffect]_vars

\* An upload has just been refused for the quota while a File row could still
\* have been created.
C7_Witness ==
  /\ response = Resp("upload", "QuotaExceeded")
  /\ Len(files) < MaxFiles

RECURSIVE SumSizes(_, _, _)
SumSizes(fl, u, n) ==
  IF n = 0 THEN 0
  ELSE SumSizes(fl, u, n - 1)
         + (IF fl[n].userId = u /\ fl[n].deletedAt = 0 THEN fl[n].size ELSE 0)

\* The upload jobs of u that are buffered, queued or delivered and unsettled.
PendingUpload(u) ==
  \/ \E i \in 1..Len(inMemoryQueue[UPLOAD]) : inMemoryQueue[UPLOAD][i].userId = u
  \/ \E i \in 1..Len(brokerQueue[UPLOAD]) : brokerQueue[UPLOAD][i].userId = u
  \/ \E i \in 1..Len(unacked[UPLOAD]) : unacked[UPLOAD][i].job.userId = u

\* C8: whenever no upload job of u is pending or in flight, storageUsed of u
\* is the sum of the sizes of u's non-deleted files.
C8_StorageUsedIsSum ==
  \A u \in Users : ~PendingUpload(u) => storageUsed[u] = SumSizes(files, u, Len(files))

\* C9: processing an upload job whose fileId was processed before leaves
\* storageUsed as the first processing left it.
C9_DuplicateDelivery ==
  [][\A auditOk \in BOOLEAN :
       (/\ unacked[UPLOAD] # <<>>
        /\ unacked[UPLOAD][1].job.fileId \in FileIds
        /\ deliveries[unacked[UPLOAD][1].job.fileId] >= 1
        /\ UploadProcess(auditOk))
         => storageUsed' = storageUsed]_vars

\* C10: with the broker disabled or the connection down, an upload of a valid
\* file answers success, isAvailable() is false, and the job is the newest
\* entry of the in-memory buffer of the upload queue.
C10_DegradedPublish ==
  [][\A u \in Users, name \in FileNames, size \in Sizes :
       (/\ size <= MAX_FILE_SIZE
        /\ storageUsed[u] + size <= StorageQuota
        /\ ~enableRabbitMQ \/ ~connected
        /\ upload(u, TRUE, name, 0, size))
         => /\ response'.status = "Success"
            /\ ~isAvailable'
            /\ Len(getInMemoryQueue(UPLOAD)') = Len(getInMemoryQueue(UPLOAD)) + 1
            /\ getInMemoryQueue(UPLOAD)'[Len(getInMemoryQueue(UPLOAD)')]
                 = [fileId |-> Len(files) + 1, userId |-> u, size |-> size]
            /\ brokerQueue' = brokerQueue]_vars

\* An upload has just succeeded on a service whose connection, once open, is
\* down: its job sits in the upload buffer.
C10_Witness ==
  /\ response = Resp("upload", "Success")
  /\ enableRabbitMQ /\ channel /\ ~connected
  /\ getInMemoryQueue(UPLOAD) # <<>>

\* data became the newest message the broker holds for queue, the buffers
\* staying as they were.
HandedToBroker(queue, data) ==
  /\ brokerQueue' = [brokerQueue EXCEPT ![queue] = Append(@, data)]
  /\ inMemoryQueue' = inMemoryQueue

\* data became the newest entry of the in-memory buffer of queue, the broker's
\* queues staying as they were.
Buffered(queue, data) ==
  /\ inMemoryQueue' = [inMemoryQueue EXCEPT ![queue] = Append(@, data)]
  /\ brokerQueue' = brokerQueue

\* C11: publishToQueue(q, p) never fails toward its caller and never drops p:
\* with the broker enabled and the connection open p is handed to the broker,
\* otherwise (disabled by configuration, connect failed, connection gone) p is
\* appended to the in-memory buffer of q.
C11_PublishNeverDrops ==
  [][\A queue \in {DOWNLOAD, TRANSCODE} : \A data \in DirectJobs(queue) :
       publishJob(queue, data)
         => /\ response'.status = "Success"
            /\ IF enableRabbitMQ /\ connected
               THEN HandedToBroker(queue, data) \/ Buffered(queue, data)
               ELSE Buffered(queue, data)]_vars

\* C12: once the connection has reported error or close, isAvailable() is
\* false and every publish goes to the in-memory buffer; isAvailable() turns
\* true again in no step other than an explicit connect() call.
C12_DegradedUntilConnect ==
  [][/\ (connected /\ onConnectionClose) => ~isAvailable'
     /\ (~isAvailable /\ isAvailable') => connect
     /\ \A queue \in {DOWNLOAD, TRANSCODE} : \A data \in DirectJobs(queue) :
          (~isAvailable /\ publishJob(queue, data)) => Buffered(queue, data)]_vars

\* The connection of an enabled service was reported closed, the broker is
\* running, and a job published since then sits in the download buffer.
C12_Witness ==
  /\ response = Resp("publishToQueue", "Success")
  /\ enableRabbitMQ /\ brokerUp /\ channel /\ ~connected
  /\ ~isAvailable
  /\ getInMemoryQueue(DOWNLOAD) # <<>>

\* C13: in every reachable state isAvailable() is true exactly when the next
\* publishToQueue call takes the broker path and false exactly when it appends
\* to the in-memory buffer; so isAvailable() implies that a channel exists.
C13_AvailableIffBrokerPath ==
  /\ [](isAvailable <=> UsesBroker)
  /\ [](isAvailable => channel)
  /\ [][\A queue \in {DOWNLOAD, TRANSCODE} : \A data \in DirectJobs(queue) :
          publishJob(queue, data)
            => IF isAvailable
               THEN /\ inMemoryQueue' = inMemoryQueue
                    /\ brokerQueue' = PublishBroker(brokerQueue, queue, data)
               ELSE Buffered(queue, data)]_vars

\* A job published while isAvailable() was true is held by the broker.
C13_Witness ==
  /\ response = Resp("publishToQueue", "Success")
  /\ isAvailable /\ channel
  /\ brokerQueue[DOWNLOAD] # <<>>
  /\ getInMemoryQueue(DOWNLOAD) = <<>>

\* C14: for every message delivered to the upload or the download consumer
\* exactly one of ack and nack is issued, and only after the processor has
\* finished: ack if and only if processing completed without error (the
\* message is in state "processed"), nack otherwise (state "failed"), never
\* both and never while the processor has not finished.
C14_ExactlyOneSettlement ==
  [][\A queue \in {UPLOAD, DOWNLOAD} :
       unacked[queue] # <<>> =>
         /\ Ack(queue) => unacked[queue][1].state = "processed"
         /\ Nack(queue) => unacked[queue][1].state = "failed"]_vars

\* job is among the messages the broker holds ready for queue.
Queued(bq, queue, job) == \E i \in 1..Len(bq[queue]) : bq[queue][i] = job

C16_FailedJobDeadLettered ==
  [][\A queue \in {UPLOAD, DOWNLOAD} :
       (unacked[queue] # <<>> /\ unacked[queue][1].state = "failed" /\ workerUp
          /\ Nack(queue))
         => deadLetter'[queue] = Append(deadLetter[queue], unacked[queue][1].job)]_vars

\* The jobs that can be published to queue.
JobsOf(queue) ==
  IF queue = UPLOAD
  THEN {[fileId |-> f, userId |-> Owner, size |-> size] :
          f \in 1..MaxFiles, size \in 1..MAX_FILE_SIZE}
  ELSE DirectJobs(queue)

\* job is held by a consumer callback of queue.
Held(queue, job) == \E i \in 1..Len(unacked[queue]) : unacked[queue][i].job = job

\* job, queued at the broker while the consumer is connected, is eventually
\* neither queued nor held: it was delivered and then acked or nacked.
EventuallySettled(queue, job) ==
  (Queued(brokerQueue, queue, job) /\ workerUp)
    ~> (~Queued(brokerQueue, queue, job) /\ ~Held(queue, job))

RacedPair(r1, r2) ==
  /\ r1 # r2
  /\ requests[r1].pc = "done" /\ requests[r2].pc = "done"
  /\ requests[r1].userId = requests[r2].userId
  /\ requests[r1].parentId = requests[r2].parentId
  /\ requests[r1].name = requests[r2].name
  /\ requests[r1].name # <<>>
  /\ requests[r1].concurrent \/ requests[r2].concurrent
  /\ requests[r1].status # "NotFound" /\ requests[r2].status # "NotFound"

\* The live folders with the key of request r.
Persisted(r) ==
  {i \in FolderIds : /\ folders[i].userId = requests[r].userId
                     /\ folders[i].parentId = requests[r].parentId
                     /\ folders[i].name = requests[r].name
                     /\ folders[i].deletedAt = 0}

\* C18: of two createFolder calls for the same user, parent and name that run
\* concurrently exactly one succeeds and persists a folder; the other fails
\* with DuplicateName or Conflict and persists nothing.
C18_ConcurrentCreateOneWins ==
  \A r1, r2 \in Reqs :
    RacedPair(r1, r2) =>
      /\ Cardinality(Persisted(r1)) = 1
      /\ \E w \in {r1, r2} : \E l \in {r1, r2} \ {w} :
           /\ requests[w].status = "Success"
           /\ Persisted(r1) = {requests[w].folderId}
           /\ requests[l].status \in {"DuplicateName", "Conflict"}
           /\ requests[l].folderId = 0

\* C19: when restoreFolder(F) on a deleted folder F returns success, F and
\* every descendant folder and file that the cascade of F's delete had deleted
\* (those of F's subtree that carry F's deletedAt timestamp) are non-deleted.
C19_RestoreCascadeComplete ==
  [][\A u \in Users, f \in 1..MaxFolders :
       (/\ FindDeleted(folders, f, u)
        /\ response' = Resp("restoreFolder", "Success")
        /\ restoreFolder(u, f))
         => LET t == folders[f].deletedAt
            IN  /\ folders'[f].deletedAt = 0
                /\ \A d \in FolderIds :
                     (folders[d].deletedAt = t /\ IsDescendantOf(folders, d, f))
                       => folders'[d].deletedAt = 0
                /\ \A x \in FileIds :
                     (files[x].deletedAt = t /\ InSubtree(folders, files[x].folderId, f))
                       => files'[x].deletedAt = 0]_vars

\* C20: when the parent of the deleted folder F is itself deleted at restore
\* time, a successful restoreFolder(F) sets F.parentId to null and F.path to
\* "/" + F.name, and the descendants the cascade of F's delete had deleted are
\* restored with their paths recomputed under F's new path.
C20_RestoreToRoot ==
  [][\A u \in Users, f \in 1..ChainLen :
       (/\ FindDeleted(folders, f, u)
        /\ folders[f].parentId # 0
        /\ folders[folders[f].parentId].deletedAt # 0
        /\ response' = Resp("restoreFolder", "Success")
        /\ restoreFolder(u, f))
         => LET t == folders[f].deletedAt
            IN  /\ folders'[f].parentId = 0
                /\ folders'[f].path = Slash \o folders'[f].name
                /\ \A d \in FolderIds :
                     (folders[d].deletedAt = t /\ IsDescendantOf(folders, d, f))
                       => /\ folders'[d].deletedAt = 0
                          /\ folders'[d].path =
                               folders'[folders'[d].parentId].path \o Slash \o folders'[d].name
                /\ \A x \in FileIds :
                     (files[x].deletedAt = t /\ InSubtree(folders, files[x].folderId, f))
                       => files'[x].deletedAt = 0]_vars

\* The call answered NotFound and wrote nothing.
RefusedNotFound ==
  /\ response'.status = "NotFound"
  /\ audited' = <<>>
  /\ StoreUnchanged

\* C21: rename, move and delete applied to a soft-deleted folder, and restore
\* applied to a non-deleted folder, answer NotFound and change nothing; a
\* folder passes from active to deleted only in a deleteFolder step and from
\* deleted to active only in a restoreFolder step, and a deleted folder keeps
\* its deletedAt until it is restored.
C21_DeletedStateTransitions ==
  [][/\ \A u \in Users, f \in FolderIds :
          /\ folders[f].deletedAt # 0 =>
               /\ \A name \in NameInputs : updateFolder(u, f, name) => RefusedNotFound
               /\ \A t \in 0..MaxFolders : moveFolder(u, f, t) => RefusedNotFound
               /\ deleteFolder(u, f) => RefusedNotFound
          /\ folders[f].deletedAt = 0 =>
               (restoreFolder(u, f) => RefusedNotFound)
     /\ \A f \in FolderIds :
          /\ (folders[f].deletedAt = 0 /\ folders'[f].deletedAt # 0)
               => response'.op = "deleteFolder"
          /\ (folders[f].deletedAt # 0 /\ folders'[f].deletedAt = 0)
               => response'.op = "restoreFolder"
          /\ folders[f].deletedAt # 0
               => folders'[f].deletedAt \in {0, folders[f].deletedAt}]_vars

\* A restore has just been refused in a store whose folders, as many as the
\* bound allows, are all active: whichever folder it named was not deleted.
C21_Witness ==
  /\ response = Resp("restoreFolder", "NotFound")
  /\ Len(folders) = MaxFolders
  /\ \A f \in FolderIds : folders[f].deletedAt = 0
  /\ \E f \in FolderIds : folders[f].userId = "u1"
  /\ \E f \in FolderIds : folders[f].userId = "u2"

\* The folder with this id belongs to a user other than u.
Foreign(u, id) == id \in FolderIds /\ folders[id].userId # u

\* No folder has this id.
Missing(id) == id \notin FolderIds

\* The call answered NotFound under the name of its handler and wrote nothing.
RefusedAs(op) ==
  /\ response' = Resp(op, "NotFound")
  /\ audited' = <<>>
  /\ StoreUnchanged

NoAccess(u, fileId) ==
  fileId \in FileIds /\ files[fileId].deletedAt = 0 /\ ~checkAccess(u, fileId)

\* No file has this id, or the file that has it is soft-deleted.
NoLiveFile(fileId) == fileId \notin FileIds \/ files[fileId].deletedAt # 0

\* C23: getDownloadUrl called by a user who has no access to an existing file
\* answers exactly what it answers for a file that does not exist or is
\* soft-deleted: NotFound, with no audit record and nothing cached.
C23_DeniedAsNotFound ==
  [][\A u \in Users, fileId \in 1..(MaxFiles + 1) :
       ((NoAccess(u, fileId) \/ NoLiveFile(fileId)) /\ getDownloadUrl(u, fileId))
         => /\ response' = Resp("getDownloadUrl", "NotFound")
            /\ audited' = <<>>
            /\ downloadCache' = downloadCache
            /\ StoreUnchanged]_vars

\* C24: after any sequence of uploads, file renames, file moves and deletes,
\* no two non-deleted files of one user in one folder (the root included) have
\* the same name.
C24_FileNameUnique ==
  \A a, b \in FileIds :
    (/\ a # b
     /\ files[a].deletedAt = 0 /\ files[b].deletedAt = 0
     /\ files[a].userId = files[b].userId
     /\ files[a].folderId = files[b].folderId)
      => files[a].name # files[b].name

\* Folder f is deleted while a folder below it or a file in its subtree is not.
DeletedWithLiveContents(fs, fl, f) ==
  /\ fs[f].deletedAt # 0
  /\ \/ \E d \in 1..Len(fs) : IsDescendantOf(fs, d, f) /\ fs[d].deletedAt = 0
     \/ \E x \in 1..Len(fl) : InSubtree(fs, fl[x].folderId, f) /\ fl[x].deletedAt = 0

\* C25: a deleteFolder(F) during which a store call fails is answered as a
\* failure, and it leaves no state in which F is deleted while a descendant
\* folder or a file of its subtree is still non-deleted.
C25_FailedDeleteLeavesNoOrphans ==
  [][\A f \in 1..MaxFolders, failAt \in DeleteSteps :
       (/\ FindActive(folders, f, Owner)
        /\ ~DeletedWithLiveContents(folders, files, f)
        /\ deleteFolderFault(Owner, f, failAt))
         => /\ response'.status # "Success"
            /\ ~DeletedWithLiveContents(folders', files', f)]_vars

\* C26: when recalculateUsage(u) returns, storageUsed of u is exactly the sum
\* of the sizes of u's non-deleted files, whatever uploads, deletes, job
\* processing and usage adjustments came before.
C26_RecomputeIsSum ==
  [][\A u \in Users :
       recalculateUsage(u) => storageUsed'[u] = SumSizes(files', u, Len(files'))]_vars

\* A recompute has just corrected the usage of a user whose only file was
\* counted by the worker and deleted afterwards.
C26_Witness ==
  /\ response = Resp("recalculateUsage", "Success")
  /\ Len(files) = 1 /\ files[1].deletedAt # 0
  /\ deliveries[1] >= 1
  /\ storageUsed[Owner] = 0

\* C27: storageUsed of every user is never negative, and an adjustment whose
\* result would be negative leaves storageUsed at 0.
C27_UsageNeverNegative ==
  /\ [](\A u \in Users : storageUsed[u] >= 0)
  /\ [][\A u \in Users, delta \in Deltas :
          (storageUsed[u] + delta < 0 /\ updateUsage(u, delta)) => storageUsed'[u] = 0]_vars

\* C28: restoreFolder(F) of a deleted folder of the caller never fails because
\* of a name collision: it answers success, under a suffixed name when a
\* non-deleted folder has F's name at the restore destination, and afterwards
\* no other non-deleted folder with F's userId and parentId has F's name.
C28_RestoreNeverCollides ==
  [][\A u \in Users, f \in FolderIds :
       (FindDeleted(folders, f, u) /\ restoreFolder(u, f))
         => /\ response'.status = "Success"
            /\ folders'[f].deletedAt = 0
            /\ \A d \in FolderIds \ {f} :
                 (/\ folders'[d].deletedAt = 0
                  /\ folders'[d].userId = folders'[f].userId
                  /\ folders'[d].parentId = folders'[f].parentId)
                   => folders'[d].name # folders'[f].name]_vars

\* C29: the consumer of a queue holds at most one unsettled job at any time,
\* and the broker delivers the next job of a queue only when the consumer
\* holds none, the previous one having been acked or nacked.
C29_OneInFlightPerQueue ==
  /\ [](\A queue \in QUEUES : Len(unacked[queue]) <= 1)
  /\ [][\A queue \in {UPLOAD, DOWNLOAD} : Deliver(queue) => unacked[queue] = <<>>]_vars

\* The download consumer holds one job while the next one waits at the broker
\* of a connected worker.
C29_Witness ==
  /\ workerUp /\ brokerUp
  /\ Len(unacked[DOWNLOAD]) = 1
  /\ brokerQueue[DOWNLOAD] # <<>>

\* The upload job the handler publishes for the file it is about to create.
NextUploadJob(size) == [fileId |-> Len(files) + 1, userId |-> Owner, size |-> size]

\* C30: in degraded mode every publish appends its payload at the tail of the
\* buffer of its queue and every clear empties the buffer of its queue, each
\* leaving the buffers of the other queues as they were, and no other step
\* changes a buffer: the buffer of a queue is the sequence of the payloads
\* published to it in degraded mode since its last clear, in publish order.
C30_BufferIsPublishLog ==
  [][/\ \A queue \in {DOWNLOAD, TRANSCODE} : \A data \in DirectJobs(queue) :
          (~isAvailable /\ publishJob(queue, data))
            => inMemoryQueue' = [inMemoryQueue EXCEPT ![queue] = Append(@, data)]
     /\ \A name \in FileNames :
          (~isAvailable /\ uploadBounded(MaxNamedFiles, Owner, TRUE, name, 0, 1))
            => inMemoryQueue' =
                 [inMemoryQueue EXCEPT ![UPLOAD] = Append(@, NextUploadJob(1))]
     /\ \A queue \in QUEUES :
          clearInMemoryQueue(queue)
            => /\ getInMemoryQueue(queue)' = <<>>
               /\ \A other \in QUEUES \ {queue} :
                    getInMemoryQueue(other)' = getInMemoryQueue(other)
     /\ inMemoryQueue' # inMemoryQueue
          => response'.op \in {"upload", "publishToQueue", "clearInMemoryQueue"}]_vars

\* The transcode buffer has just been cleared while the upload buffer holds
\* the jobs of two uploads in the order of the uploads and the download buffer
\* holds a job.
C30_Witness ==
  /\ response = Resp("clearInMemoryQueue", "Success")
  /\ Len(getInMemoryQueue(UPLOAD)) = 2
  /\ getInMemoryQueue(UPLOAD)[1].fileId = 1 /\ getInMemoryQueue(UPLOAD)[2].fileId = 2
  /\ getInMemoryQueue(DOWNLOAD) # <<>>
  /\ getInMemoryQueue(TRANSCODE) = <<>>


\* C31: every createFolder call that stores a folder answers success and
\* appends exactly one audit record, for that folder and with an action of
\* the closed set {upload, download, delete, share, login, register, update}.
\* (audit_logs is only ever written with AuditLog.create: no handler of the
\* repository updates or removes a record.)
C31_CreateAudited ==
  [][\A u \in Users, name \in NameInputs, parentId \in 0..MaxFolders :
       (folders' # folders /\ createFolder(u, name, parentId)) =>
         /\ response'.status = "Success"
         /\ Len(audited') = 1
         /\ AuditValid(audited'[1].action)
         /\ audited'[1].resourceId = Len(folders')]_vars


\* C32: every getDownloadUrl call that answers with a download URL appends
\* one audit record with action download for that file and that user, whether
\* the URL was generated by the call or served from the cache.
C32_DownloadAudited ==
  [][\A u \in Users, fileId \in 1..(MaxFiles + 1) :
       (getDownloadUrl(u, fileId) /\ response'.status = "Success")
         => audited' = <<AuditRec(u, "download", fileId)>>]_vars


\* C33: with uploads of one user interleaved in any order with the processing
\* of their upload jobs, the sizes of the user's non-deleted files never add
\* up to more than the user's storageQuota.
C33_LiveBytesWithinQuota ==
  \A u \in Users : AggregateTotal(files, u) <= StorageQuota



\* Every folder and file of a user other than u is after the step what it
\* was before (name, parentId or folderId, path, deletedAt).
OthersKept(u) ==
  /\ \A i \in FolderIds : folders[i].userId # u => folders'[i] = folders[i]
  /\ \A i \in FileIds : files[i].userId # u => files'[i] = files[i]

\* C34: a folder operation issued by user U (rename, move, delete, restore
\* and their cascades) never changes the name, parentId, path or deletedAt of
\* a folder or file owned by a different user, even when the other user owns
\* folders with identical paths.
C34_OtherUsersUntouched ==
  [][\A u \in Users :
       ((folders' # folders \/ files' # files) /\ FolderOpBy(u)) => OthersKept(u)]_vars


\* C35: in every reachable state, including the interleavings of a child
\* folder create, a folder move or a file move or upload into folder P with a
\* delete of P or of an ancestor of P, no non-deleted folder has a deleted
\* parent and no non-deleted file lies in a deleted folder.
C35_NoLiveUnderDeleted ==
  /\ \A d \in FolderIds :
       (folders[d].deletedAt = 0 /\ folders[d].parentId # 0)
         => folders[folders[d].parentId].deletedAt = 0
  /\ \A f \in FileIds :
       (files[f].deletedAt = 0 /\ files[f].folderId # 0)
         => folders[files[f].folderId].deletedAt = 0


\* C36: after any sequence of folder create, rename, move, delete and restore
\* operations the parentId relation is acyclic: following parentId from any
\* folder reaches null (the root) within as many steps as there are folders,
\* so that no folder is visited twice.
C36_ParentAcyclic ==
  \A d \in FolderIds : \E k \in 1..Len(folders) : AncestorAt(folders, d, k) = 0


\* C37: a createFolder call that returns an error to its caller (invalid
\* name, missing parent, duplicate name, or a failure while writing the audit
\* record) leaves the folder collection exactly as it was before the call.
C37_FailedCreateNoEffect ==
  [][\A u \in Users, name \in NameInputs, parentId \in 0..MaxFolders :
       (createFolder(u, name, parentId) /\ response'.status # "Success")
         => folders' = folders]_vars


\* C38: when the processing of an upload job throws (the file row is
\* missing, or the audit write fails), control reaches the catch block that
\* nacks the job, and the user's storageUsed has the value it had before the
\* attempt.
C38_FailedJobLeavesUsage ==
  [][\A auditOk \in BOOLEAN :
       (UploadProcess(auditOk) /\ response'.status = "Error")
         => /\ unacked'[UPLOAD][1].state = "failed"
            /\ storageUsed' = storageUsed]_vars


\* new is old with one payload appended at the tail.
AppendedOne(old, new) ==
  Len(new) = Len(old) + 1 /\ SubSeq(new, 1, Len(old)) = old

\* C39: payloads held in the in-memory buffer are never handed to the broker
\* by any dispatcher operation, not even by a later successful connect(): a
\* connect leaves every buffer and every broker queue as it was, the buffer of
\* a queue changes only through publishToQueue in degraded mode (one payload
\* appended at the tail) and clearInMemoryQueue (the buffer is removed), and a
\* broker queue receives only the payload of a publish on the broker path.
C39_BufferNeverFlushed ==
  [][/\ connect => (inMemoryQueue' = inMemoryQueue /\ brokerQueue' = brokerQueue)
     /\ \A queue \in QUEUES :
          inMemoryQueue'[queue] # inMemoryQueue[queue]
            => \/ /\ response'.op = "clearInMemoryQueue"
                  /\ inMemoryQueue'[queue] = <<>>
               \/ /\ response'.op \in {"upload", "publishToQueue"}
                  /\ ~UsesBroker
                  /\ AppendedOne(inMemoryQueue[queue], inMemoryQueue'[queue])
                  /\ brokerQueue' = brokerQueue
     /\ \A queue \in QUEUES :
          brokerQueue'[queue] # brokerQueue[queue]
            => /\ response'.op \in {"upload", "publishToQueue"}
               /\ UsesBroker
               /\ AppendedOne(brokerQueue[queue], brokerQueue'[queue])
               /\ inMemoryQueue' = inMemoryQueue]_vars

\* A connect has just succeeded while the buffers of the upload and the
\* download queue hold payloads published before it; the broker holds none.
C39_Witness ==
  /\ response = Resp("connect", "Success")
  /\ isEnabled /\ connected /\ channel
  /\ inMemoryQueue[UPLOAD] # <<>>
  /\ inMemoryQueue[DOWNLOAD] # <<>>
  /\ \A queue \in QUEUES : brokerQueue[queue] = <<>>

====
